---- MODULE Spec2Model ----
(***************************************************************************)
(* Model of the bookmarker core: the bookmark tree store                   *)
(* (bookmarker/models/bookmark.py), the Chrome codec                       *)
(* (bookmarker/operations/chrome.py), the import engine (importer.py),     *)
(* the bidirectional sync engine (sync.py) and the store file import       *)
(* (store_export.py).                                                      *)
(*                                                                         *)
(* Representation.  The Python store is an owned tree of Bookmark          *)
(* objects.  Here it is an arena: a function from node id to a record      *)
(* holding the node's fields, `children` being the ordered list of child   *)
(* ids.  A fresh id (uuid4 in the code) is the smallest id not in use.  A  *)
(* title is a sequence of atoms: the title "Dev" is <<"Dev">>, a title     *)
(* holding a slash such as "a/b" is <<"a","b">>; a folder path string is   *)
(* the sequence of the atoms between its slashes, so that join and split   *)
(* on "/" are modelled by what they do.  A timestamp string is a record    *)
(* [kind, t]: kind says whether the ISO string carries a UTC offset        *)
(* ("aware"), carries none ("naive") or does not parse ("bad").            *)
(*                                                                         *)
(* A local variable of the code that is read more than once is bound with  *)
(* With(value, LAMBDA name : ...), which evaluates it once.                *)
(***************************************************************************)
EXTENDS Integers, Sequences, FiniteSets, TLC

\* ---------------------------------------------------------------- bounds
MaxIds == 4          \* ids the store may hand out (two of them are the roots)
MaxDate == 1         \* latest stamp a browser puts on a bookmark
MaxBrowserNodes == 2 \* nodes the browser's own bookmark file may hold
MaxPosition == 0     \* largest explicit position passed to move
MaxPlacesRows == 1   \* bookmarks Firefox itself puts into its database

\* ------------------------------------------------------------- constants
NoId == 0            \* None / "" for an id, a parent_id or a source_id
URL == "url"
FOLDER == "folder"
NoBrowser == "none"
Chrome == "chrome"
RootNames == <<"bookmark_bar", "other">>

Atoms == {"A", "B"}
Titles == {<<a>> : a \in Atoms}
TitleA == <<"A">>
TitleB == <<"B">>

\* A URL string is the tuple of the pieces of its text:
\* scheme "://" host path "?" query "#" fragment.  The path piece is the
\* text between the host and the "?", parameters (";x") included.
Url(scheme, host, path, query, fragment) ==
    [scheme |-> scheme, host |-> host, path |-> path,
     query |-> query, fragment |-> fragment]
EmptyUrl == Url("", "", "", "", "")
UrlA == Url("https", "a.com", "/", "", "")
UrlB == Url("https", "b.com", "", "", "")
Urls == {UrlA, UrlB}

\* str.lower on the schemes and hosts the model uses
Lower(s) ==
    CASE s = "HTTPS" -> "https"
      [] s = "MAILTO" -> "mailto"
      [] s = "A.COM" -> "a.com"
      [] s = "B.COM" -> "b.com"
      [] OTHER -> s

\* urlparse(url).path: the parameters of the last path segment are split
\* off (";x" after the last "/"), for the schemes that take parameters
ParsedPath(url) ==
    IF url.scheme \in {"https", "HTTPS"}
    THEN CASE url.path = "/p;x" -> "/p"
           [] OTHER -> url.path
    ELSE url.path

\* str.rstrip("/") on the paths the model uses
RStripSlash(p) ==
    CASE p = "/" -> ""
      [] p = "/p/" -> "/p"
      [] p = "/p//" -> "/p"
      [] p = "/p;x/" -> "/p;x"
      [] OTHER -> p

\* normalize_url: f"{scheme}://{host}{path}" when urlparse finds a host,
\* the input itself otherwise
normalize_url(url) ==
    IF url = EmptyUrl THEN EmptyUrl
    ELSE IF url.host # ""
         THEN Url(Lower(url.scheme), Lower(url.host), RStripSlash(ParsedPath(url)), "", "")
         ELSE url

\* ------------------------------------------------------------ timestamps
Naive(t) == [kind |-> "naive", t |-> t]
Aware(t) == [kind |-> "aware", t |-> t]
BadDate == [kind |-> "bad", t |-> 0]

\* --------------------------------------------------------------- helpers
With(v, F(_)) == F(v)

Range(s) == {s[i] : i \in 1..Len(s)}

Min(S) == CHOOSE i \in S : \A j \in S : i <= j
Max(S) == CHOOSE i \in S : \A j \in S : j <= i

\* list.pop(i), counting from 1
SeqRemoveAt(s, i) ==
    [j \in 1..(Len(s) - 1) |-> IF j < i THEN s[j] ELSE s[j + 1]]

\* list.insert(i, x), counting from 1
SeqInsertAt(s, i, x) ==
    [j \in 1..(Len(s) + 1) |-> IF j < i THEN s[j] ELSE IF j = i THEN x ELSE s[j - 1]]

\* list.index(x), counting from 1
IndexOf(s, x) == Min({i \in 1..Len(s) : s[i] = x})

\* ------------------------------------------------------------- Bookmark
Bookmark(type, title, url, date_modified, source_browser, source_id) ==
    [type |-> type, title |-> title, url |-> url,
     parent_id |-> NoId, position |-> 0,
     date_modified |-> date_modified,
     source_browser |-> source_browser, source_id |-> source_id,
     preferred_browser |-> NoBrowser,
     children |-> <<>>]

\* BookmarkStore.__post_init__: two fresh root folders
NewStore(barId, otherId, now) ==
    [roots |-> [bookmark_bar |-> barId, other |-> otherId],
     last_modified |-> now,
     nodes |-> (barId :> Bookmark(FOLDER, <<"Bookmarks Bar">>, EmptyUrl, now, NoBrowser, NoId)
                @@ otherId :> Bookmark(FOLDER, <<"Other Bookmarks">>, EmptyUrl, now, NoBrowser, NoId))]

RootIds(st) == {st.roots[r] : r \in DOMAIN st.roots}

\* pre-order flatten of the subtrees rooted at the ids of the list
RECURSIVE PreOrder(_, _)
PreOrder(nodes, ids) ==
    IF ids = <<>> THEN <<>>
    ELSE <<Head(ids)>> \o PreOrder(nodes, nodes[Head(ids)].children)
                       \o PreOrder(nodes, Tail(ids))

\* BookmarkStore.all_bookmarks: every non-root node, roots in dict order
all_bookmarks(st) ==
    PreOrder(st.nodes, st.nodes[st.roots.bookmark_bar].children)
    \o PreOrder(st.nodes, st.nodes[st.roots.other].children)

Reachable(st) == RootIds(st) \cup Range(all_bookmarks(st))

Folders(st) == {n \in Reachable(st) : st.nodes[n].type = FOLDER}

\* BookmarkStore.find_by_id: NoId stands for None
find_by_id(st, id) == IF id \in Reachable(st) THEN id ELSE NoId

\* the folder whose children list holds id (first in traversal order),
\* NoId when no folder does
HolderOf(st, id) ==
    With(<<st.roots.bookmark_bar>>
           \o PreOrder(st.nodes, st.nodes[st.roots.bookmark_bar].children)
           \o <<st.roots.other>>
           \o PreOrder(st.nodes, st.nodes[st.roots.other].children),
         LAMBDA order :
    With({i \in 1..Len(order) : id \in Range(st.nodes[order[i]].children)},
         LAMBDA hits :
    IF hits = {} THEN NoId ELSE order[Min(hits)]))

\* a re-index that renumbers nothing
ReindexNone(nodes, kids) == nodes

\* "for j, c in enumerate(children): c.position = j"
Reindex(nodes, kids) ==
    [n \in DOMAIN nodes |->
        IF n \in Range(kids)
        THEN [nodes[n] EXCEPT !.position = IndexOf(kids, n) - 1]
        ELSE nodes[n]]

\* drop the arena entries no longer reachable from a root (an object the
\* tree no longer references)
Prune(st) ==
    [st EXCEPT !.nodes = [n \in Reachable(st) |-> st.nodes[n]]]

\* ------------------------------------------------------ store operations
\* an append that replaces the children list instead of extending it
AttachAlone(st, id, b, parent, now) ==
    Prune([st EXCEPT !.nodes =
              (id :> [b EXCEPT !.parent_id = parent, !.position = 0])
              @@ [st.nodes EXCEPT ![parent].children = <<id>>,
                                  ![parent].date_modified = now]])

\* append bookmark b under folder `parent` (the body shared by both
\* branches of BookmarkStore.add)
Attach(st, id, b, parent, now) ==
    [st EXCEPT !.nodes =
        (id :> [b EXCEPT !.parent_id = parent,
                         !.position = Len(st.nodes[parent].children)])
        @@ [st.nodes EXCEPT ![parent].children = Append(@, id),
                            ![parent].date_modified = now]]

\* an add without the fall-back to the named root
add_no_fallback(st, id, b, parent_id, root, now) ==
    IF parent_id \in Folders(st) THEN Attach(st, id, b, parent_id, now) ELSE st

\* BookmarkStore.add(bookmark, parent_id, root)
add(st, id, b, parent_id, root, now) ==
    With(IF parent_id # NoId THEN find_by_id(st, parent_id) ELSE NoId,
         LAMBDA parent :
    IF parent # NoId /\ st.nodes[parent].type = FOLDER
    THEN Attach(st, id, b, parent, now)
    ELSE IF root \in DOMAIN st.roots
         THEN Attach(st, id, b, st.roots[root], now)
         ELSE st)

\* BookmarkStore._remove_from on the folder p that holds id: pop the child,
\* re-index the siblings left.  The popped subtree stays in the arena until
\* the caller drops or re-attaches it.
DetachFrom(st, p, id, now) ==
    With(SeqRemoveAt(st.nodes[p].children, IndexOf(st.nodes[p].children, id)),
         LAMBDA kids :
    [st EXCEPT !.nodes =
        Reindex([st.nodes EXCEPT ![p].children = kids,
                                 ![p].date_modified = now], kids)])

\* BookmarkStore.remove(bookmark_id); found = FALSE stands for None
remove(st, id, now) ==
    With(HolderOf(st, id), LAMBDA p :
    IF p = NoId
    THEN [st |-> st, found |-> FALSE]
    ELSE [st |-> Prune(DetachFrom(st, p, id, now)), found |-> TRUE])

\* the second half of BookmarkStore.move without "bookmark.parent_id = new_parent_id"
MoveIntoKeepParent(st1, id, new_parent_id, position, now) ==
    With(find_by_id(st1, new_parent_id), LAMBDA new_parent :
    IF new_parent = NoId \/ st1.nodes[new_parent].type # FOLDER
    THEN [st |-> Prune(st1), ok |-> FALSE]
    ELSE With(SeqInsertAt(st1.nodes[new_parent].children,
                          IF position < 0 \/ position > Len(st1.nodes[new_parent].children)
                          THEN Len(st1.nodes[new_parent].children) + 1 ELSE position + 1,
                          id),
              LAMBDA kids :
         [st |-> [st1 EXCEPT !.nodes =
                     Reindex([st1.nodes EXCEPT
                                ![new_parent].children = kids,
                                ![new_parent].date_modified = now], kids)],
          ok |-> TRUE]))

\* the second half of BookmarkStore.move, on the store st1 the removal left
MoveInto(st1, id, new_parent_id, position, now) ==
    With(find_by_id(st1, new_parent_id), LAMBDA new_parent :
    IF new_parent = NoId \/ st1.nodes[new_parent].type # FOLDER
    THEN [st |-> Prune(st1), ok |-> FALSE]
    ELSE With(st1.nodes[new_parent].children, LAMBDA kids0 :
         With(SeqInsertAt(kids0,
                          IF position < 0 \/ position > Len(kids0)
                          THEN Len(kids0) + 1 ELSE position + 1,
                          id),
              LAMBDA kids :
         [st |-> [st1 EXCEPT !.nodes =
                     Reindex([st1.nodes EXCEPT
                                ![id].parent_id = new_parent_id,
                                ![new_parent].children = kids,
                                ![new_parent].date_modified = now], kids)],
          ok |-> TRUE])))

\* BookmarkStore.move(bookmark_id, new_parent_id, position)
move(st, id, new_parent_id, position, now) ==
    With(HolderOf(st, id), LAMBDA p :
    IF p = NoId
    THEN [st |-> st, ok |-> FALSE]
    ELSE MoveInto(DetachFrom(st, p, id, now), id, new_parent_id, position, now))

\* BookmarkStore.save: stamps last_modified, the document written is the
\* stamped store
save(st, now) == [st EXCEPT !.last_modified = now]

\* smallest id not in use (uuid4: any fresh id)
FreshId(st) == Min((1..(Cardinality(DOMAIN st.nodes) + 1)) \ DOMAIN st.nodes)

\* f"{path}/{title}" if path else title
PathJoin(path, title) == path \o title

\* BookmarkStore.find_by_url: every URL node with that normalized url,
\* in traversal order
find_by_url(st, url) ==
    SelectSeq(all_bookmarks(st),
              LAMBDA n : /\ st.nodes[n].type = URL
                         /\ normalize_url(st.nodes[n].url) = normalize_url(url))

\* first child folder of `parent` titled `title`, NoId when there is none
ChildFolder(st, parent, title) ==
    With({i \in 1..Len(st.nodes[parent].children) :
             /\ st.nodes[st.nodes[parent].children[i]].type = FOLDER
             /\ st.nodes[st.nodes[parent].children[i]].title = title},
         LAMBDA hits :
    IF hits = {} THEN NoId ELSE st.nodes[parent].children[Min(hits)])

\* ------------------------------------------------- Chrome bookmarks file
\* The file: nodes keyed by their "id", the child lists of its three
\* roots.  date_modified is NoDate when the node has no such key.
NoDate == -1
NoPath == [installed |-> FALSE]
ChromeFile(nodes, bar, other, synced) ==
    [installed |-> TRUE, nodes |-> nodes,
     roots |-> [bookmark_bar |-> bar, other |-> other, synced |-> synced]]
EmptyChromeFile == ChromeFile(<<>>, <<>>, <<>>, <<>>)

ChromeNode(type, name, url, date_modified, children) ==
    [type |-> type, name |-> name, url |-> url,
     date_modified |-> date_modified, children |-> children]

\* chrome_time_to_iso: "0", a missing or a non-numeric value give now()
chrome_time_to_iso(chrome_time, now) ==
    IF chrome_time = NoDate THEN now ELSE Aware(chrome_time)

\* iso_to_chrome_time: a naive time is taken as UTC, "0" when unparsable
iso_to_chrome_time(iso) ==
    IF iso.kind = "bad" THEN NoDate ELSE iso.t

\* ids of the two root Bookmark objects of a snapshot store
SnapBar == -1
SnapOther == -2

\* read_chrome_bookmarks returning None
NoSnapshot == [roots |-> <<>>]

\* the node of the file whose children hold cid, rootId when cid is a
\* child of the root itself
ParentInFile(file, cid, rootId) ==
    With({n \in DOMAIN file.nodes : cid \in Range(file.nodes[n].children)},
         LAMBDA holders :
    IF holders = {} THEN rootId ELSE CHOOSE n \in holders : TRUE)

\* _parse_chrome_node and _set_parent_ids for the file node cid, which
\* lies below the root rootId whose own children are rootKids
ParsedNode(file, cid, rootId, rootKids, source_browser, now) ==
    With(ParentInFile(file, cid, rootId), LAMBDA holder :
    [type |-> IF file.nodes[cid].type = FOLDER THEN FOLDER ELSE URL,
     title |-> file.nodes[cid].name,
     url |-> file.nodes[cid].url,
     parent_id |-> holder,
     position |-> IndexOf(IF holder = rootId THEN rootKids
                          ELSE file.nodes[holder].children, cid) - 1,
     date_modified |-> chrome_time_to_iso(file.nodes[cid].date_modified, now),
     source_browser |-> source_browser,
     source_id |-> cid,
     preferred_browser |-> NoBrowser,
     children |-> IF file.nodes[cid].type = FOLDER
                  THEN file.nodes[cid].children ELSE <<>>])

\* read_chrome_bookmarks: the snapshot BookmarkStore; a snapshot node is
\* keyed by the file's id, which is also its source_id.  Only the
\* bookmark_bar and other roots are read.
read_chrome_bookmarks(file, source_browser, now) ==
    IF ~file.installed THEN NoSnapshot
    ELSE
    With(Range(PreOrder(file.nodes, file.roots.bookmark_bar)), LAMBDA inBar :
    With(Range(PreOrder(file.nodes, file.roots.other)), LAMBDA inOther :
    [roots |-> [bookmark_bar |-> SnapBar, other |-> SnapOther],
     last_modified |-> now,
     nodes |-> [i \in (inBar \cup inOther) \cup {SnapBar, SnapOther} |->
                  IF i = SnapBar
                  THEN [Bookmark(FOLDER, <<"Bookmarks Bar">>, EmptyUrl, now, NoBrowser, NoId)
                          EXCEPT !.children = file.roots.bookmark_bar]
                  ELSE IF i = SnapOther
                  THEN [Bookmark(FOLDER, <<"Other Bookmarks">>, EmptyUrl, now, NoBrowser, NoId)
                          EXCEPT !.children = file.roots.other]
                  ELSE IF i \in inBar
                  THEN ParsedNode(file, i, SnapBar, file.roots.bookmark_bar,
                                  source_browser, now)
                  ELSE ParsedNode(file, i, SnapOther, file.roots.other,
                                  source_browser, now)]]))

\* _bookmark_to_chrome_node: ids are handed out in pre-order from 1; the
\* file id of the store node n, given the pre-order list of the store
ChromeId(order, n) == IndexOf(order, n)

\* a conversion that writes every folder without its children
ToChromeNodeFlat(st, order, n) ==
    IF st.nodes[n].type = URL
    THEN ChromeNode(URL, st.nodes[n].title, st.nodes[n].url, NoDate, <<>>)
    ELSE ChromeNode(FOLDER, st.nodes[n].title, EmptyUrl,
                    iso_to_chrome_time(st.nodes[n].date_modified), <<>>)

\* _bookmark_to_chrome_node for the store node n: a URL node is written
\* without date_modified
ToChromeNode(st, order, n) ==
    IF st.nodes[n].type = URL
    THEN ChromeNode(URL, st.nodes[n].title, st.nodes[n].url, NoDate, <<>>)
    ELSE ChromeNode(FOLDER, st.nodes[n].title, EmptyUrl,
                    iso_to_chrome_time(st.nodes[n].date_modified),
                    [i \in 1..Len(st.nodes[n].children) |->
                        ChromeId(order, st.nodes[n].children[i])])

\* write_chrome_bookmarks, the document built from the store: the synced
\* root is written empty
StoreToChromeFile(st) ==
    With(all_bookmarks(st), LAMBDA order :
    ChromeFile([c \in 1..Len(order) |-> ToChromeNode(st, order, order[c])],
               [i \in 1..Len(st.nodes[st.roots.bookmark_bar].children) |->
                   ChromeId(order, st.nodes[st.roots.bookmark_bar].children[i])],
               [i \in 1..Len(st.nodes[st.roots.other].children) |->
                   ChromeId(order, st.nodes[st.roots.other].children[i])],
               <<>>))

\* a write that does not ask whether the browser runs
write_chrome_unguarded(st, file, backup, running) ==
    IF ~file.installed
    THEN [ok |-> FALSE, file |-> file, backup |-> backup]
    ELSE [ok |-> TRUE, file |-> StoreToChromeFile(st), backup |-> file]

\* write_chrome_bookmarks(store, path): refuses while the browser runs or
\* when no bookmark file is known; copies the old file to the backups
\* directory, then rewrites it
write_chrome_bookmarks(st, file, backup, running) ==
    IF running \/ ~file.installed
    THEN [ok |-> FALSE, file |-> file, backup |-> backup]
    ELSE [ok |-> TRUE, file |-> StoreToChromeFile(st), backup |-> file]

\* ------------------------------------------------ Firefox places.sqlite
_MOZ_TYPE_BOOKMARK == 1
_MOZ_TYPE_FOLDER == 2
_MOZ_TOOLBAR_ID == 3
_MOZ_UNFILED_ID == 5
_MOZ_MOBILE_ID == 6
Firefox == "firefox"

\* The database file: the committed rows of moz_bookmarks other than the
\* root folders, in insertion order.
NoPlaces == [exists |-> FALSE]
Places(rows) == [exists |-> TRUE, rows |-> rows]
MozRow(id, type, parent, position, title, url) ==
    [id |-> id, type |-> type, parent |-> parent, position |-> position,
     title |-> title, url |-> url]

\* A connection: `rows` is the table as the connection sees it, its own
\* uncommitted statements included; todo the store nodes insert_bookmark
\* has not reached yet; done the number of statements executed.
NoConn == [open |-> FALSE]
NoWrite == [conn |-> NoConn, backup |-> NoPlaces]
Connect(db, todo) == [open |-> TRUE, rows |-> db.rows, todo |-> todo, done |-> 0]

\* cursor.execute of a statement that leaves the table as `rows`, on a
\* connection that commits each statement as it runs
sql_execute_autocommit(db, c, rows) ==
    [db |-> [db EXCEPT !.rows = rows],
     conn |-> [c EXCEPT !.rows = rows, !.done = @ + 1]]

\* cursor.execute of a statement that leaves the table as `rows`: sqlite3
\* opens a transaction before the first DELETE or INSERT and the statement
\* changes the connection's view only
sql_execute(db, c, rows) ==
    [db |-> db, conn |-> [c EXCEPT !.rows = rows, !.done = @ + 1]]

\* conn.commit(): the connection's view becomes the file's content
sql_commit(db, c) == [db |-> [db EXCEPT !.rows = c.rows], conn |-> NoConn]

\* the connection is dropped with its transaction open: rolled back
sql_abandon(db, c) == [db |-> db, conn |-> NoConn]

\* the row insert_bookmark writes for the store node n; ids count on from
\* MAX(id), which after the DELETE is the last root folder's
MozRowOf(st, order, n) ==
    With(HolderOf(st, n), LAMBDA parent :
    MozRow(_MOZ_MOBILE_ID + IndexOf(order, n),
           IF st.nodes[n].type = URL THEN _MOZ_TYPE_BOOKMARK ELSE _MOZ_TYPE_FOLDER,
           IF parent = st.roots.bookmark_bar THEN _MOZ_TOOLBAR_ID
           ELSE IF parent = st.roots.other THEN _MOZ_UNFILED_ID
           ELSE _MOZ_MOBILE_ID + IndexOf(order, parent),
           IndexOf(st.nodes[parent].children, n) - 1,
           st.nodes[n].title,
           st.nodes[n].url))

\* the table write_firefox_bookmarks builds from the store
StoreToMozRows(st) ==
    With(all_bookmarks(st), LAMBDA order :
    [i \in 1..Len(order) |-> MozRowOf(st, order, order[i])])

\* write_firefox_bookmarks up to sqlite3.connect: refuses while Firefox
\* runs or when there is no database, copies the database to the backups
\* directory, opens the connection
FirefoxOpen(st, db, dbackup, running) ==
    IF running \/ ~db.exists
    THEN [ok |-> FALSE, db |-> db, backup |-> dbackup, conn |-> NoConn]
    ELSE [ok |-> TRUE, db |-> db, backup |-> db,
          conn |-> Connect(db, all_bookmarks(st))]

\* the next statement of write_firefox_bookmarks: the DELETE first, then
\* one INSERT per store node in pre-order
FirefoxStatement(st, db, c) ==
    IF c.done = 0
    THEN sql_execute(db, c, <<>>)
    ELSE With(sql_execute(db, c, Append(c.rows,
                  MozRowOf(st, all_bookmarks(st), Head(c.todo)))),
              LAMBDA s : [s EXCEPT !.conn.todo = Tail(@)])

\* write_firefox_bookmarks from the connect on; statement number
\* fail_at + 1 raises sqlite3.Error (fail_at = -1: none does)
RECURSIVE FirefoxRun(_, _, _, _)
FirefoxRun(st, db, c, fail_at) ==
    IF c.done = fail_at
    THEN [ok |-> FALSE, db |-> sql_abandon(db, c).db]
    ELSE IF c.done > 0 /\ c.todo = <<>>
    THEN [ok |-> TRUE, db |-> sql_commit(db, c).db]
    ELSE With(FirefoxStatement(st, db, c),
              LAMBDA s : FirefoxRun(st, s.db, s.conn, fail_at))

\* write_firefox_bookmarks(store, places_path)
write_firefox_bookmarks(st, db, dbackup, running, fail_at) ==
    With(FirefoxOpen(st, db, dbackup, running), LAMBDA o :
    IF ~o.ok
    THEN [ok |-> FALSE, db |-> db, backup |-> dbackup]
    ELSE With(FirefoxRun(st, o.db, o.conn, fail_at), LAMBDA r :
              [ok |-> r.ok, db |-> r.db, backup |-> o.backup]))

\* ------------------------------------------------------------ sync engine
ADD_TO_STORE == "add_to_store"
UPDATE_STORE == "update_store"
ADD_TO_BROWSER == "add_to_browser"
UPDATE_BROWSER == "update_browser"

\* _collect_url_bookmarks: (bookmark, root_name, path) of every URL node
\* below the listed siblings, in traversal order
RECURSIVE _collect_url_bookmarks(_, _, _, _)
_collect_url_bookmarks(nodes, kids, root_name, path) ==
    IF kids = <<>> THEN <<>>
    ELSE (IF nodes[Head(kids)].type = URL
          THEN <<[bm |-> Head(kids), root_name |-> root_name, path |-> path]>>
          ELSE _collect_url_bookmarks(nodes, nodes[Head(kids)].children, root_name,
                                      PathJoin(path, nodes[Head(kids)].title)))
         \o _collect_url_bookmarks(nodes, Tail(kids), root_name, path)

\* the loop of _build_lookup over store.roots.items()
CollectAll(st) ==
    _collect_url_bookmarks(st.nodes, st.nodes[st.roots.bookmark_bar].children,
                           "bookmark_bar", <<>>)
    \o _collect_url_bookmarks(st.nodes, st.nodes[st.roots.other].children,
                              "other", <<>>)

\* key = (normalize_url(bm.url), root_name, path)
SyncKey(st, e) == <<normalize_url(st.nodes[e.bm].url), e.root_name, e.path>>

\* a dict in which the first bookmark inserted under a key stays
LookupOfFirst(st, es) ==
    [keys |-> With(SelectSeq([i \in 1..Len(es) |-> i],
                      LAMBDA i : \A j \in 1..(i - 1) :
                                    SyncKey(st, es[j]) # SyncKey(st, es[i])),
                   LAMBDA firsts :
                   [i \in 1..Len(firsts) |-> SyncKey(st, es[firsts[i]])]),
     val |-> [k \in {SyncKey(st, es[i]) : i \in 1..Len(es)} |->
                 es[Min({i \in 1..Len(es) : SyncKey(st, es[i]) = k})].bm]]

\* the dict built from the collected entries es: a later bookmark with the
\* same key replaces the earlier one while the key keeps the place of its
\* first insertion.  keys: the keys in iteration order; val: the bookmark
\* held for a key.
LookupOf(st, es) ==
    [keys |-> With(SelectSeq([i \in 1..Len(es) |-> i],
                      LAMBDA i : \A j \in 1..(i - 1) :
                                    SyncKey(st, es[j]) # SyncKey(st, es[i])),
                   LAMBDA firsts :
                   [i \in 1..Len(firsts) |-> SyncKey(st, es[firsts[i]])]),
     val |-> [k \in {SyncKey(st, es[i]) : i \in 1..Len(es)} |->
                 es[Max({i \in 1..Len(es) : SyncKey(st, es[i]) = k})].bm]]

\* _build_lookup(store)
_build_lookup(st) == LookupOf(st, CollectAll(st))

\* _build_source_lookup(store).get((browser, source_id)): the last node,
\* folder or URL, carrying that provenance; NoId for None
SourceLookup(st, browser, source_id) ==
    With(all_bookmarks(st), LAMBDA order :
    With({i \in 1..Len(order) :
             /\ st.nodes[order[i]].source_browser = browser
             /\ st.nodes[order[i]].source_id = source_id
             /\ st.nodes[order[i]].source_browser # NoBrowser
             /\ st.nodes[order[i]].source_id # NoId},
         LAMBDA hits :
    IF hits = {} THEN NoId ELSE order[Max(hits)]))

\* the store node plan_sync resolves a browser bookmark to: by source id
\* first, then by key; NoId when there is none
Existing(st, store_lookup, browser_name, browser_bm, key) ==
    With(IF browser_bm.source_id # NoId
         THEN SourceLookup(st, browser_name, browser_bm.source_id)
         ELSE NoId,
         LAMBDA bySource :
    IF bySource # NoId THEN bySource
    ELSE IF key \in DOMAIN store_lookup.val THEN store_lookup.val[key]
    ELSE NoId)

\* "datetime.fromisoformat(a) > datetime.fromisoformat(b)" inside the try:
\* FALSE when either string does not parse (ValueError) or when one time
\* carries an offset and the other does not (TypeError)
IsNewer(browser_mod, store_mod) ==
    /\ browser_mod.kind # "bad"
    /\ store_mod.kind # "bad"
    /\ browser_mod.kind = store_mod.kind
    /\ browser_mod.t > store_mod.t

\* SyncAction; bm is the Bookmark object the action refers to (a snapshot
\* node for a store-directed action, a store node for a browser-directed
\* one), the fields of that object are copied beside it
SyncAction(action, bm, b, root_name, parent_title) ==
    [action |-> action, bm |-> bm, title |-> b.title, url |-> b.url,
     date_modified |-> b.date_modified, source_id |-> b.source_id,
     root_name |-> root_name, parent_title |-> parent_title]

\* body of the first loop of plan_sync for one key of the browser lookup
StoreStep(st, snap, store_lookup, browser_lookup, browser_name, key) ==
    With(browser_lookup.val[key], LAMBDA bid :
    With(Existing(st, store_lookup, browser_name, snap.nodes[bid], key),
         LAMBDA existing :
    IF existing = NoId
    THEN <<SyncAction(ADD_TO_STORE, bid, snap.nodes[bid], key[2], key[3])>>
    ELSE IF IsNewer(snap.nodes[bid].date_modified, st.nodes[existing].date_modified)
         THEN <<SyncAction(UPDATE_STORE, bid, snap.nodes[bid], key[2], key[3])>>
         ELSE <<>>))

\* first loop of plan_sync: one step per key of the browser lookup
StoreDirected(st, snap, store_lookup, browser_lookup, browser_name) ==
    LET F[i \in 0..Len(browser_lookup.keys)] ==
            IF i = 0 THEN <<>>
            ELSE F[i - 1] \o StoreStep(st, snap, store_lookup, browser_lookup,
                                       browser_name, browser_lookup.keys[i])
    IN F[Len(browser_lookup.keys)]

\* a second loop that skips the "key not in browser_lookup" test
BrowserDirectedAll(st, store_lookup, browser_lookup) ==
    [i \in 1..Len(store_lookup.keys) |->
        SyncAction(ADD_TO_BROWSER,
                   store_lookup.val[store_lookup.keys[i]],
                   st.nodes[store_lookup.val[store_lookup.keys[i]]],
                   store_lookup.keys[i][2],
                   store_lookup.keys[i][3])]

\* second loop of plan_sync: one step per key of the store lookup
BrowserDirected(st, store_lookup, browser_lookup) ==
    LET F[i \in 0..Len(store_lookup.keys)] ==
            IF i = 0 THEN <<>>
            ELSE F[i - 1] \o
                 (IF store_lookup.keys[i] \notin DOMAIN browser_lookup.val
                  THEN <<SyncAction(ADD_TO_BROWSER,
                                    store_lookup.val[store_lookup.keys[i]],
                                    st.nodes[store_lookup.val[store_lookup.keys[i]]],
                                    store_lookup.keys[i][2],
                                    store_lookup.keys[i][3])>>
                  ELSE <<>>)
    IN F[Len(store_lookup.keys)]

\* a plan_sync that runs its second loop before its first
PlanFromBrowserFirst(st, snap, browser_name) ==
    IF snap = NoSnapshot
    THEN [actions |-> <<>>, snap |-> NoSnapshot, err |-> "Could not read bookmarks",
          st |-> st]
    ELSE With(_build_lookup(st), LAMBDA store_lookup :
         With(_build_lookup(snap), LAMBDA browser_lookup :
         [actions |-> BrowserDirected(st, store_lookup, browser_lookup)
                      \o StoreDirected(st, snap, store_lookup, browser_lookup, browser_name),
          snap |-> snap, err |-> "", st |-> st]))

\* a plan_sync that stamps the store it reads
PlanFromStamping(st, snap, browser_name) ==
    IF snap = NoSnapshot
    THEN [actions |-> <<>>, snap |-> NoSnapshot, err |-> "Could not read bookmarks",
          st |-> [st EXCEPT !.last_modified = BadDate]]
    ELSE With(_build_lookup(st), LAMBDA store_lookup :
         With(_build_lookup(snap), LAMBDA browser_lookup :
         [actions |-> StoreDirected(st, snap, store_lookup, browser_lookup, browser_name)
                      \o BrowserDirected(st, store_lookup, browser_lookup),
          snap |-> snap, err |-> "", st |-> [st EXCEPT !.last_modified = BadDate]]))

\* plan_sync once the browser has been read
PlanFrom(st, snap, browser_name) ==
    IF snap = NoSnapshot
    THEN [actions |-> <<>>, snap |-> NoSnapshot, err |-> "Could not read bookmarks",
          st |-> st]
    ELSE With(_build_lookup(st), LAMBDA store_lookup :
         With(_build_lookup(snap), LAMBDA browser_lookup :
         [actions |-> StoreDirected(st, snap, store_lookup, browser_lookup, browser_name)
                      \o BrowserDirected(st, store_lookup, browser_lookup),
          snap |-> snap, err |-> "", st |-> st]))

\* plan_sync(store, browser_name): (actions, browser_store, error) and the
\* store as the call leaves it
plan_sync(st, file, browser_name, now) ==
    PlanFrom(st, read_chrome_bookmarks(file, browser_name, now), browser_name)

\* _add_to_store_at_path below the folder `current`: walk or create the
\* folders named by the parts of parent_path, then add the bookmark there
RECURSIVE AddAtPath(_, _, _, _, _)
AddAtPath(st, current, parts, b, now) ==
    IF parts = <<>>
    THEN add(st, FreshId(st), b, current, "bookmark_bar", now)
    ELSE With(ChildFolder(st, current, <<Head(parts)>>), LAMBDA found :
         IF found # NoId
         THEN AddAtPath(st, found, Tail(parts), b, now)
         ELSE AddAtPath(add(st, FreshId(st),
                            Bookmark(FOLDER, <<Head(parts)>>, EmptyUrl, now,
                                     NoBrowser, NoId),
                            current, "bookmark_bar", now),
                        FreshId(st), Tail(parts), b, now))

_add_to_store_at_path(st, b, root_name, parent_path, now) ==
    IF root_name \notin DOMAIN st.roots THEN st
    ELSE AddAtPath(st, st.roots[root_name], parent_path, b, now)

\* the UPDATE_STORE branch: the target is the first store bookmark with
\* the action's url
UpdateStore(acc, a) ==
    With(find_by_url(acc.st, a.url), LAMBDA existing :
    IF existing # <<>>
    THEN [acc EXCEPT !.st.nodes[existing[1]].title = a.title,
                     !.st.nodes[existing[1]].date_modified = a.date_modified,
                     !.store_changes = @ + 1]
    ELSE acc)

\* one turn of the loop of execute_sync
ApplyAction(acc, a, browser_name, now) ==
    IF a.action = ADD_TO_STORE
    THEN [acc EXCEPT
            !.st = _add_to_store_at_path(
                       acc.st,
                       Bookmark(URL, a.title, a.url, a.date_modified,
                                browser_name, a.source_id),
                       a.root_name, a.parent_title, now),
            !.store_changes = @ + 1]
    ELSE IF a.action = UPDATE_STORE
    THEN UpdateStore(acc, a)
    ELSE IF a.action \in {ADD_TO_BROWSER, UPDATE_BROWSER}
    THEN [acc EXCEPT !.browser_needs_write = TRUE]
    ELSE acc

\* the loop of execute_sync over the approved actions
RECURSIVE ApplyActions(_, _, _, _)
ApplyActions(acc, actions, browser_name, now) ==
    IF actions = <<>> THEN acc
    ELSE ApplyActions(ApplyAction(acc, Head(actions), browser_name, now),
                      Tail(actions), browser_name, now)

CountBrowserActions(actions) ==
    Len(SelectSeq(actions, LAMBDA a : a.action \in {ADD_TO_BROWSER, UPDATE_BROWSER}))

\* the end of execute_sync: "if store_changes > 0: store.save()" and the
\* returned tuple; w is the outcome of the browser write, writes the
\* number of calls of the codec's write the call made
SyncResult(acc, w, writes, sfile, actions, error, now) ==
    [st |-> IF acc.store_changes > 0 THEN save(acc.st, now) ELSE acc.st,
     storeFile |-> IF acc.store_changes > 0 THEN save(acc.st, now) ELSE sfile,
     file |-> w.file,
     backup |-> w.backup,
     writes |-> writes,
     store_changes |-> acc.store_changes,
     browser_changes |-> IF w.ok THEN CountBrowserActions(actions) ELSE 0,
     error |-> error]

\* a push that is made whether or not a browser-directed action was approved
SyncFinishAlways(acc, sfile, file, backup, actions, running1, running2, now) ==
    With(write_chrome_bookmarks(acc.st, file, backup, running2), LAMBDA w :
         SyncResult(acc, w, 1, sfile, actions,
                    IF w.ok THEN "" ELSE "Failed to write", now))

\* execute_sync after its loop
SyncFinish(acc, sfile, file, backup, actions, running1, running2, now) ==
    IF ~acc.browser_needs_write
    THEN SyncResult(acc, [ok |-> FALSE, file |-> file, backup |-> backup], 0,
                    sfile, actions, "", now)
    ELSE IF running1
    THEN SyncResult(acc, [ok |-> FALSE, file |-> file, backup |-> backup], 0,
                    sfile, actions, "is running. Browser changes not applied.", now)
    ELSE With(write_chrome_bookmarks(acc.st, file, backup, running2), LAMBDA w :
              SyncResult(acc, w, 1, sfile, actions,
                         IF w.ok THEN "" ELSE "Failed to write", now))

\* execute_sync(store, browser_name, actions).  running1 is the answer of
\* execute_sync's own is_browser_running call, running2 the answer of the
\* call inside the codec's write.
execute_sync(st, sfile, file, backup, actions, browser_name, running1, running2, now) ==
    SyncFinish(ApplyActions([st |-> st, store_changes |-> 0,
                             browser_needs_write |-> FALSE],
                            actions, browser_name, now),
               sfile, file, backup, actions, running1, running2, now)

\* ---------------------------------------------------------- import engine
\* importer._collect_with_paths / store_export._collect_with_paths:
\* (bookmark, "root_name/path") of every URL node below the siblings
RECURSIVE _collect_with_paths(_, _, _, _)
_collect_with_paths(nodes, kids, root_name, path) ==
    IF kids = <<>> THEN <<>>
    ELSE (IF nodes[Head(kids)].type = URL
          THEN <<[bm |-> Head(kids), folder_path |-> <<root_name>> \o path]>>
          ELSE _collect_with_paths(nodes, nodes[Head(kids)].children, root_name,
                                   PathJoin(path, nodes[Head(kids)].title)))
         \o _collect_with_paths(nodes, Tail(kids), root_name, path)

\* the loop over store.roots.items() around _collect_with_paths
CollectWithPaths(st) ==
    _collect_with_paths(st.nodes, st.nodes[st.roots.bookmark_bar].children,
                        "bookmark_bar", <<>>)
    \o _collect_with_paths(st.nodes, st.nodes[st.roots.other].children,
                           "other", <<>>)

\* _dedup_key: f"{normalize_url(url)}|{parent_path}"
_dedup_key(url, parent_path) == <<normalize_url(url), parent_path>>

\* the existing_keys set import_from_browser starts from
ExistingKeys(st) ==
    With(CollectWithPaths(st), LAMBDA es :
    {_dedup_key(st.nodes[es[i].bm].url, es[i].folder_path) : i \in 1..Len(es)})

\* the URL branch of _import_children; acc is [st, keys, added, skipped]
ImportUrl(acc, browser_bm, store_parent, key, browser_name, now) ==
    IF key \in acc.keys
    THEN [acc EXCEPT !.skipped = @ + 1]
    ELSE [acc EXCEPT
            !.st = add(acc.st, FreshId(acc.st),
                       Bookmark(URL, browser_bm.title, browser_bm.url,
                                browser_bm.date_modified,
                                browser_name, browser_bm.source_id),
                       store_parent, "bookmark_bar", now),
            !.keys = @ \cup {key},
            !.added = @ + 1]

\* the folder branch of _import_children up to the recursive call: the
\* store folder to descend into is created when no child folder of
\* store_parent carries the browser folder's title
ImportFolder(acc, browser_bm, store_parent, browser_name, now) ==
    [acc EXCEPT
       !.st = add(acc.st, FreshId(acc.st),
                  Bookmark(FOLDER, browser_bm.title, EmptyUrl,
                           browser_bm.date_modified,
                           browser_name, browser_bm.source_id),
                  store_parent, "bookmark_bar", now),
       !.added = @ + 1]

\* _import_children
RECURSIVE _import_children(_, _, _, _, _, _, _, _)
_import_children(acc, snodes, browser_children, store_parent, root_name, browser_name, parent_path, now) ==
    IF browser_children = <<>> THEN acc
    ELSE
    _import_children(
        IF snodes[Head(browser_children)].type = FOLDER
        THEN With(ChildFolder(acc.st, store_parent,
                              snodes[Head(browser_children)].title),
                  LAMBDA existing_folder :
             IF existing_folder # NoId
             THEN _import_children(acc, snodes,
                                   snodes[Head(browser_children)].children,
                                   existing_folder, root_name, browser_name,
                                   PathJoin(parent_path,
                                            snodes[Head(browser_children)].title),
                                   now)
             ELSE _import_children(ImportFolder(acc, snodes[Head(browser_children)],
                                                store_parent, browser_name, now),
                                   snodes,
                                   snodes[Head(browser_children)].children,
                                   FreshId(acc.st), root_name, browser_name,
                                   PathJoin(parent_path,
                                            snodes[Head(browser_children)].title),
                                   now))
        ELSE ImportUrl(acc, snodes[Head(browser_children)], store_parent,
                       _dedup_key(snodes[Head(browser_children)].url,
                                  <<root_name>> \o parent_path),
                       browser_name, now),
        snodes, Tail(browser_children), store_parent, root_name, browser_name,
        parent_path, now)

\* import_from_browser once the browser has been read
ImportFrom(st, snap, browser_name, now) ==
    IF snap = NoSnapshot
    THEN [st |-> st, added |-> 0, skipped |-> 0, err |-> "Could not read bookmarks"]
    ELSE With(_import_children(
                  _import_children([st |-> st, keys |-> ExistingKeys(st),
                                    added |-> 0, skipped |-> 0],
                                   snap.nodes, snap.nodes[SnapBar].children,
                                   st.roots.bookmark_bar, "bookmark_bar",
                                   browser_name, <<>>, now),
                  snap.nodes, snap.nodes[SnapOther].children,
                  st.roots.other, "other", browser_name, <<>>, now),
              LAMBDA acc :
              [st |-> acc.st, added |-> acc.added, skipped |-> acc.skipped,
               err |-> ""])

\* import_from_browser(browser_name, store): (added, skipped, error) and
\* the store as the call leaves it
import_from_browser(st, file, browser_name, now) ==
    ImportFrom(st, read_chrome_bookmarks(file, browser_name, now), browser_name, now)

\* ------------------------------------------------- store file import
OVERWRITE == "overwrite"
MERGE == "merge"
KEEP_EXISTING == "keep_existing"
USE_IMPORTED == "use_imported"
Unresolved == "none"

NoFile == [roots |-> <<>>]
NoPreview == [source |-> "none"]

\* the (imported_bm, folder_path) tuple plan_import keeps for entry e of
\* the import file
ImportItem(foreign, e) ==
    [title |-> foreign.nodes[e.bm].title,
     url |-> foreign.nodes[e.bm].url,
     date_modified |-> foreign.nodes[e.bm].date_modified,
     preferred_browser |-> foreign.nodes[e.bm].preferred_browser,
     folder_path |-> e.folder_path]

\* an index that keeps the first store bookmark collected with key k
ExistingByKeyFirst(st, es, k) ==
    es[Min({i \in 1..Len(es) :
               _dedup_key(st.nodes[es[i].bm].url, es[i].folder_path) = k})].bm

\* existing_by_key[k]: the last store bookmark collected with key k
ExistingByKey(st, es, k) ==
    es[Max({i \in 1..Len(es) :
               _dedup_key(st.nodes[es[i].bm].url, es[i].folder_path) = k})].bm

\* the loops of plan_import over the collected entries es of the store and
\* fs of the import file
PreviewOf(st, foreign, es, fs, existing_keys) ==
    [source |-> "file",
     bookmarks_to_add |->
        With(SelectSeq(fs, LAMBDA e :
                 _dedup_key(foreign.nodes[e.bm].url, e.folder_path)
                     \notin existing_keys),
             LAMBDA adds : [j \in 1..Len(adds) |-> ImportItem(foreign, adds[j])]),
     conflicts |->
        With(SelectSeq(fs, LAMBDA e :
                 /\ _dedup_key(foreign.nodes[e.bm].url, e.folder_path)
                       \in existing_keys
                 /\ st.nodes[ExistingByKey(st, es,
                        _dedup_key(foreign.nodes[e.bm].url, e.folder_path))].title
                      # foreign.nodes[e.bm].title),
             LAMBDA cons :
             [j \in 1..Len(cons) |->
                 [existing |-> ExistingByKey(st, es,
                                  _dedup_key(foreign.nodes[cons[j].bm].url,
                                             cons[j].folder_path)),
                  imported |-> ImportItem(foreign, cons[j]),
                  resolution |-> Unresolved]])]

\* plan_import(store, import_path): the ImportPreview
plan_import(st, foreign) ==
    PreviewOf(st, foreign, CollectWithPaths(st), CollectWithPaths(foreign),
              ExistingKeys(st))

\* _ensure_folder_path below the folder `current`: walk or create the
\* folders named by parts; the result is the store and the folder reached
RECURSIVE EnsureFrom(_, _, _, _)
EnsureFrom(st, current, parts, now) ==
    IF parts = <<>> THEN [st |-> st, folder |-> current]
    ELSE With(ChildFolder(st, current, <<Head(parts)>>), LAMBDA found :
         IF found # NoId
         THEN EnsureFrom(st, found, Tail(parts), now)
         ELSE EnsureFrom(add(st, FreshId(st),
                             Bookmark(FOLDER, <<Head(parts)>>, EmptyUrl, now,
                                      NoBrowser, NoId),
                             current, "bookmark_bar", now),
                         FreshId(st), Tail(parts), now))

\* _ensure_folder_path(store, "root/a/b"); folder = NoId stands for None
_ensure_folder_path(st, folder_path, now) ==
    IF folder_path = <<>> \/ Head(folder_path) \notin DOMAIN st.roots
    THEN [st |-> st, folder |-> NoId]
    ELSE EnsureFrom(st, st.roots[Head(folder_path)], Tail(folder_path), now)

\* one turn of the first MERGE loop, e being what _ensure_folder_path
\* returned for the item
MergeAddOne(acc, it, e, now) ==
    IF e.folder # NoId
    THEN [acc EXCEPT
            !.st = add(e.st, FreshId(e.st),
                       [Bookmark(URL, it.title, it.url, it.date_modified,
                                 NoBrowser, NoId)
                          EXCEPT !.preferred_browser = it.preferred_browser],
                       e.folder, "bookmark_bar", now),
            !.added = @ + 1]
    ELSE [acc EXCEPT !.st = e.st]

\* MERGE, first loop: add every addable bookmark
RECURSIVE MergeAdd(_, _, _)
MergeAdd(acc, items, now) ==
    IF items = <<>> THEN acc
    ELSE MergeAdd(MergeAddOne(acc, Head(items),
                              _ensure_folder_path(acc.st, Head(items).folder_path, now),
                              now),
                  Tail(items), now)

\* an overwrite that also clears the preference when the imported
\* bookmark has none
UseImportedAll(acc, c) ==
    [acc EXCEPT
       !.st.nodes[c.existing].title = c.imported.title,
       !.st.nodes[c.existing].date_modified = c.imported.date_modified,
       !.st.nodes[c.existing].preferred_browser = c.imported.preferred_browser,
       !.updated = @ + 1]

\* the body of "if existing:" for a conflict resolved "use imported": the
\* preference is taken over only when the imported bookmark has one
UseImported(acc, c) ==
    [acc EXCEPT
       !.st.nodes[c.existing].title = c.imported.title,
       !.st.nodes[c.existing].date_modified = c.imported.date_modified,
       !.st.nodes[c.existing].preferred_browser =
           IF c.imported.preferred_browser # NoBrowser
           THEN c.imported.preferred_browser ELSE @,
       !.updated = @ + 1]

\* MERGE, second loop: apply the conflicts resolved "use imported"
RECURSIVE MergeConflicts(_, _)
MergeConflicts(acc, conflicts) ==
    IF conflicts = <<>> THEN acc
    ELSE MergeConflicts(
             IF /\ Head(conflicts).resolution = USE_IMPORTED
                /\ find_by_id(acc.st, Head(conflicts).existing) # NoId
             THEN UseImported(acc, Head(conflicts))
             ELSE acc,
             Tail(conflicts))

\* BookmarkStore.backup: materialise the file when it does not exist,
\* then copy it; copy_fails is the copy raising
backup(st, sfile, sbackup, copy_fails, now) ==
    [st |-> IF sfile = NoFile THEN save(st, now) ELSE st,
     storeFile |-> IF sfile = NoFile THEN save(st, now) ELSE sfile,
     backup |-> IF copy_fails THEN sbackup
                ELSE IF sfile = NoFile THEN save(st, now) ELSE sfile,
     ok |-> ~copy_fails]

\* execute_import after store.backup() returned b
ImportAfterBackup(b, preview, foreign, mode, now) ==
    IF ~b.ok
    THEN [st |-> b.st, storeFile |-> b.storeFile, backup |-> b.backup,
          added |-> 0, updated |-> 0, err |-> "Failed to create backup"]
    ELSE IF mode = OVERWRITE
    THEN IF foreign = NoFile
         THEN [st |-> b.st, storeFile |-> b.storeFile, backup |-> b.backup,
               added |-> 0, updated |-> 0, err |-> "Failed to import"]
         ELSE [st |-> foreign, storeFile |-> b.storeFile, backup |-> b.backup,
               added |-> Len(CollectWithPaths(foreign)), updated |-> 0, err |-> ""]
    ELSE With(MergeConflicts(MergeAdd([st |-> b.st, added |-> 0, updated |-> 0],
                                      preview.bookmarks_to_add, now),
                             preview.conflicts),
              LAMBDA a :
              [st |-> a.st, storeFile |-> b.storeFile, backup |-> b.backup,
               added |-> a.added, updated |-> a.updated, err |-> ""])

\* execute_import(store, preview, mode): (added, updated, error), the
\* store, its file and the backup as the call leaves them
execute_import(st, sfile, sbackup, preview, foreign, mode, copy_fails, now) ==
    ImportAfterBackup(backup(st, sfile, sbackup, copy_fails, now),
                      preview, foreign, mode, now)

\* ---------------------------------------------------------- exporter
\* what push_to_browser returns and leaves on disk: b is what
\* store.backup() left, w the outcome of the codec's write
PushResult(ok, err, b, file, fbackup, db, dbackup) ==
    [ok |-> ok, err |-> err,
     st |-> b.st, storeFile |-> b.storeFile, sbackup |-> b.backup,
     file |-> file, fbackup |-> fbackup, db |-> db, dbackup |-> dbackup]

\* push_to_browser after store.backup() returned b
PushAfterBackup(b, file, fbackup, db, dbackup, browser_name, running2, fail_at) ==
    IF browser_name = Chrome
    THEN With(write_chrome_bookmarks(b.st, file, fbackup, running2), LAMBDA w :
              PushResult(w.ok, IF w.ok THEN "" ELSE "Failed to write bookmarks",
                         b, w.file, w.backup, db, dbackup))
    ELSE With(write_firefox_bookmarks(b.st, db, dbackup, running2, fail_at), LAMBDA w :
              PushResult(w.ok, IF w.ok THEN "" ELSE "Failed to write bookmarks",
                         b, file, fbackup, w.db, w.backup))

\* push_to_browser(browser_name, store).  running1 is the answer of its
\* own is_browser_running call, running2 the answer of the call inside the
\* codec's write; store.backup() is not guarded: when the copy raises, the
\* call ends there with the exception
push_to_browser(st, sfile, sbackup, file, fbackup, db, dbackup, browser_name, running1, running2, copy_fails, fail_at, now) ==
    IF running1
    THEN PushResult(FALSE, "is running. Please close it first.",
                    [st |-> st, storeFile |-> sfile, backup |-> sbackup],
                    file, fbackup, db, dbackup)
    ELSE With(backup(st, sfile, sbackup, copy_fails, now), LAMBDA b :
         IF ~b.ok
         THEN PushResult(FALSE, "raised", b, file, fbackup, db, dbackup)
         ELSE PushAfterBackup(b, file, fbackup, db, dbackup, browser_name,
                              running2, fail_at))

\* ----------------------------------------------------------------- state
VARIABLES
    store,         \* the live in-memory BookmarkStore
    storeFile,     \* content of the store's JSON file, NoFile when absent
    browserFile,   \* the browser's bookmarks file
    pc,            \* "idle", or which plan is waiting for its execute step
    plan,          \* the actions plan_sync returned
    preview,       \* the ImportPreview plan_import returned
    foreign,       \* the store JSON file the preview was planned from
    last,          \* name and return value of the operation just performed;
                   \* NoRet after a step of the browser
    places,        \* Firefox's places.sqlite as it is on disk
    fxwrite,       \* the write_firefox_bookmarks call in progress: its
                   \* connection and the backup copy it took
    url,           \* the argument of the normalize_url call
    norm,          \* what the normalize_url call returned
    tmpdirs,       \* the directories tempfile.mkdtemp created that still exist
    workers        \* per kind of QThread worker: how many were started and
                   \* have not returned from run(), how many finished
                   \* signals wait for the event loop

vars == <<store, storeFile, browserFile, pc, plan, preview, foreign, last,
          places, fxwrite, url, norm, tmpdirs, workers>>

\* what the store, import and sync handlers never touch
firefoxVars == <<places, fxwrite>>
urlVars == <<url, norm>>
\* what only the Firefox reader and the driver's worker threads touch
driverVars == <<tmpdirs, workers>>

\* no worker thread was started
NoWorkers == [w \in {"import", "export"} |-> [running |-> 0, finished |-> 0]]

\* what an operation returned, and `backed`: the artifacts ("store",
\* "browser") whose content the operation copied to the backups directory
RetBacked(op, r1, r2, err, backed) ==
    [op |-> op, r1 |-> r1, r2 |-> r2, err |-> err, backed |-> backed]
Ret(op, r1, r2, err) == RetBacked(op, r1, r2, err, {})
NoRet == Ret("none", 0, 0, "")

\* datetime.now(): the explored runs happen within one reading of the
\* program's clock; the stamps a browser writes range over that time and later
now == Naive(0)

\* the earlier reading of the clock at which the store object was built
Started == Naive(-1)

\* datetime.now() at a call made after the operations stamped with `now`
Later == Naive(1)

\* BookmarkStore.load() with no store file on disk; the browser either has
\* a bookmarks file or no known bookmark path
InitStore ==
    /\ store = NewStore(1, 2, Started)
    /\ storeFile = NoFile
    /\ browserFile \in {EmptyChromeFile, NoPath}
    /\ pc = "idle"
    /\ plan = <<>>
    /\ preview = NoPreview
    /\ foreign = NoFile
    /\ last = NoRet
    /\ places = Places(<<>>)
    /\ fxwrite = NoWrite
    /\ tmpdirs = {}
    /\ workers = NoWorkers

Init ==
    /\ InitStore
    /\ url = EmptyUrl
    /\ norm = EmptyUrl

WithinIds(st) == DOMAIN st.nodes \subseteq 1..MaxIds

\* ids a caller may pass: any live id, an id that resolves to nothing
IdArgs == Reachable(store) \cup {MaxIds + 1}

UserUrls(T, U) == {Bookmark(URL, t, u, now, NoBrowser, NoId) : t \in T, u \in U}
UserFolders(T) == {Bookmark(FOLDER, t, EmptyUrl, now, NoBrowser, NoId) : t \in T}

\* the editor's add handlers: store.add(...) then store.save(); the new
\* bookmark is drawn from New
AddBookmarkOf(New, R) ==
    /\ pc = "idle"
    /\ \E b \in New, parent_id \in {NoId} \cup IdArgs, root \in R :
          /\ parent_id \in Folders(store) => root = "bookmark_bar"
          /\ \E st1 \in {add(store, FreshId(store), b, parent_id, root, now)} :
                /\ WithinIds(st1)
                /\ store' = save(st1, now)
                /\ storeFile' = store'
    /\ last' = Ret("add", 0, 0, "")
    /\ UNCHANGED <<driverVars, firefoxVars, urlVars, browserFile, pc, plan, preview, foreign>>

\* the editor's delete handler: store.remove(id) then store.save()
RemoveBookmark ==
    /\ pc = "idle"
    /\ \E id \in IdArgs :
       \E r \in {remove(store, id, now)} :
          /\ store' = save(r.st, now)
          /\ storeFile' = store'
          /\ last' = Ret("remove", IF r.found THEN 1 ELSE 0, 0, "")
    /\ UNCHANGED <<driverVars, firefoxVars, urlVars, browserFile, pc, plan, preview, foreign>>

\* store.move(id, new_parent_id, position) then store.save()
MoveBookmark ==
    /\ pc = "idle"
    /\ \E id \in IdArgs \ RootIds(store), new_parent_id \in IdArgs,
          position \in -1..MaxPosition :
       \E r \in {move(store, id, new_parent_id, position, now)} :
          /\ store' = save(r.st, now)
          /\ storeFile' = store'
          /\ last' = Ret("move", IF r.ok THEN 1 ELSE 0, 0, "")
    /\ UNCHANGED <<driverVars, firefoxVars, urlVars, browserFile, pc, plan, preview, foreign>>

\* stamps the browser may put on a bookmark: none, or a time
BrowserDates == {NoDate} \cup 0..MaxDate

BrowserUrls(T, U, D) == {ChromeNode(URL, t, u, d, <<>>) : t \in T, u \in U, d \in D}
BrowserFolders(T) == {ChromeNode(FOLDER, t, EmptyUrl, NoDate, <<>>) : t \in T}

\* append the node n to the file, under the root `root` or inside `folder`
FileAdd(file, n, root, folder) ==
    IF folder = NoId
    THEN [file EXCEPT !.nodes = (Len(file.nodes) + 1 :> n) @@ file.nodes,
                      !.roots[root] = Append(@, Len(file.nodes) + 1)]
    ELSE [file EXCEPT !.nodes = (Len(file.nodes) + 1 :> n)
                                @@ [file.nodes EXCEPT ![folder].children =
                                       Append(@, Len(file.nodes) + 1)]]

\* the browser itself adds a bookmark or a folder to its file: under one
\* of the roots R, or inside a folder of the bookmarks bar
BrowserAddOf(New, R) ==
    /\ browserFile.installed
    /\ Len(browserFile.nodes) < MaxBrowserNodes
    /\ \E n \in New, root \in R,
          folder \in {NoId} \cup {f \in DOMAIN browserFile.nodes :
                                     browserFile.nodes[f].type = FOLDER} :
          /\ folder # NoId => root = "bookmark_bar"
          /\ browserFile' = FileAdd(browserFile, n, root, folder)
    /\ last' = NoRet
    /\ UNCHANGED <<driverVars, firefoxVars, urlVars, store, storeFile, pc, plan, preview, foreign>>

\* the browser itself edits one of its bookmarks: new url, new stamp
BrowserEditOf(U, D) ==
    /\ browserFile.installed
    /\ \E cid \in DOMAIN browserFile.nodes, u \in U, d \in D :
          /\ browserFile.nodes[cid].type = URL
          /\ browserFile' = [browserFile EXCEPT !.nodes[cid].url = u,
                                                !.nodes[cid].date_modified = d]
    /\ last' = NoRet
    /\ UNCHANGED <<driverVars, firefoxVars, urlVars, store, storeFile, pc, plan, preview, foreign>>

\* ImportWorker.run for one browser, then the driver's store.save()
ImportFromBrowser ==
    /\ pc = "idle"
    /\ \E r \in {import_from_browser(store, browserFile, Chrome, now)} :
          /\ WithinIds(r.st)
          /\ store' = save(r.st, now)
          /\ storeFile' = store'
          /\ last' = Ret("import_from_browser", r.added, r.skipped, r.err)
    /\ UNCHANGED <<driverVars, firefoxVars, urlVars, browserFile, pc, plan, preview, foreign>>

\* plan_sync; the driver goes on to execute only a plan that has actions.
\* last.r2 tells whether a snapshot was returned.
PlanSync ==
    /\ pc = "idle"
    /\ \E r \in {plan_sync(store, browserFile, Chrome, now)} :
          /\ store' = r.st
          /\ plan' = r.actions
          /\ pc' = IF r.err = "" /\ r.actions # <<>> THEN "sync_planned" ELSE "idle"
          /\ last' = Ret("plan_sync", Len(r.actions),
                         IF r.snap = NoSnapshot THEN 0 ELSE 1, r.err)
    /\ UNCHANGED <<driverVars, firefoxVars, urlVars, storeFile, browserFile, preview, foreign>>

\* the sublist of s at the indices I, in the order of s
SubSeqAt(s, I) ==
    LET F[i \in 0..Len(s)] ==
            IF i = 0 THEN <<>>
            ELSE IF i \in I THEN Append(F[i - 1], s[i]) ELSE F[i - 1]
    IN F[Len(s)]

\* every sublist of the plan (the actions the user approved, in plan order)
Approved(s) == {SubSeqAt(s, I) : I \in SUBSET (1..Len(s))}

\* execute_sync with the approved actions
ExecuteSync ==
    /\ pc = "sync_planned"
    /\ \E approved \in Approved(plan), running1 \in BOOLEAN, running2 \in BOOLEAN :
       \E r \in {execute_sync(store, storeFile, browserFile, NoPath,
                              approved, Chrome, running1, running2, now)} :
          /\ WithinIds(r.st)
          /\ store' = r.st
          /\ storeFile' = r.storeFile
          /\ browserFile' = r.file
          /\ last' = RetBacked("execute_sync", r.store_changes, r.browser_changes,
                               r.error,
                               IF r.backup # NoPath THEN {"browser"} ELSE {})
    /\ pc' = "idle"
    /\ plan' = <<>>
    /\ UNCHANGED <<driverVars, firefoxVars, urlVars, preview, foreign>>

\* store JSON files offered for import: what export_store writes for a
\* store built by add() from a fresh store
ForeignStore(items) ==
    LET F[i \in 0..Len(items)] ==
            IF i = 0 THEN NewStore(1, 2, Naive(0))
            ELSE add(F[i - 1], FreshId(F[i - 1]), items[i].b, items[i].parent,
                     items[i].root, Naive(0))
    IN F[Len(items)]
ForeignUrl(t) == Bookmark(URL, t, UrlA, Naive(0), NoBrowser, NoId)
ForeignFolder(t) == Bookmark(FOLDER, t, EmptyUrl, Naive(0), NoBrowser, NoId)
ForeignFiles ==
    {ForeignStore(<<[b |-> ForeignUrl(TitleB), parent |-> NoId, root |-> "bookmark_bar"]>>),
     ForeignStore(<<[b |-> ForeignFolder(TitleA), parent |-> NoId, root |-> "other"],
                    [b |-> ForeignUrl(TitleA), parent |-> 3, root |-> "other"]>>)}

\* plan_import(store, path).  Store files are imported on the installation
\* that has no browser profile: the explored runs either reconcile with a
\* browser or import store files, not both.
PlanImportOf(Files) ==
    /\ pc = "idle"
    /\ ~browserFile.installed
    /\ \E f \in Files :
       \E p \in {plan_import(store, f)} :
          /\ foreign' = f
          /\ preview' = p
          /\ last' = Ret("plan_import", Len(p.bookmarks_to_add), Len(p.conflicts), "")
    /\ pc' = "import_planned"
    /\ UNCHANGED <<driverVars, firefoxVars, urlVars, store, storeFile, browserFile, plan>>

\* the preview after the user chose the resolution res[i] for conflict i
Resolve(p, res) ==
    [p EXCEPT !.conflicts =
        [i \in 1..Len(p.conflicts) |-> [p.conflicts[i] EXCEPT !.resolution = res[i]]]]

\* the user resolves the conflicts, then execute_import(store, preview, mode)
ExecuteImport ==
    /\ pc = "import_planned"
    /\ \E mode \in {OVERWRITE, MERGE}, copy_fails \in BOOLEAN,
          res \in [1..Len(preview.conflicts) -> {KEEP_EXISTING, USE_IMPORTED, Unresolved}] :
       \E r \in {execute_import(store, storeFile, NoFile, Resolve(preview, res),
                                foreign, mode, copy_fails, now)} :
          /\ WithinIds(r.st)
          /\ store' = r.st
          /\ storeFile' = r.storeFile
          /\ last' = RetBacked(IF mode = MERGE THEN "execute_import_merge"
                                               ELSE "execute_import_overwrite",
                               r.added, r.updated, r.err,
                               IF r.backup # NoFile THEN {"store"} ELSE {})
    /\ pc' = "idle"
    /\ preview' = NoPreview
    /\ foreign' = NoFile
    /\ UNCHANGED <<driverVars, firefoxVars, urlVars, browserFile, plan>>

PlanImport == PlanImportOf(ForeignFiles)

AddBookmark ==
    AddBookmarkOf(UserUrls({TitleA}, {UrlA}) \cup UserFolders({TitleA}), Range(RootNames))
BrowserAdd ==
    BrowserAddOf(BrowserUrls({TitleA}, {UrlA}, {NoDate}) \cup BrowserFolders({TitleA}),
                 {"bookmark_bar", "other"})

\* the store under every operation that mutates it
Next ==
    \/ AddBookmark
    \/ RemoveBookmark
    \/ MoveBookmark
    \/ BrowserAdd
    \/ ImportFromBrowser
    \/ PlanSync
    \/ ExecuteSync
    \/ PlanImport
    \/ ExecuteImport

Spec == Init /\ [][Next]_vars

SyncAddBookmark == AddBookmarkOf(UserUrls({TitleA}, {UrlA}), {"bookmark_bar"})
SyncBrowserAdd ==
    BrowserAddOf(BrowserUrls({TitleA}, {UrlA}, BrowserDates) \cup BrowserFolders({TitleA}),
                 {"bookmark_bar", "synced"})
SyncBrowserEdit == BrowserEditOf({UrlB}, BrowserDates)

\* store and one browser evolving on their own, reconciled by import and sync
NextSync ==
    \/ SyncAddBookmark
    \/ SyncBrowserAdd
    \/ SyncBrowserEdit
    \/ ImportFromBrowser
    \/ PlanSync
    \/ ExecuteSync

SpecSync == Init /\ [][NextSync]_vars

\* ------------------------------------------------------ store file import
\* import files that carry a browser preference, repeat a key, or hold a
\* bookmark the store may already have under another title
ForeignUrlOf(t, u, pref) ==
    [Bookmark(URL, t, u, Naive(0), NoBrowser, NoId) EXCEPT !.preferred_browser = pref]
UrlANoSlash == Url("https", "a.com", "", "", "")
ImportFiles ==
    {ForeignStore(<<[b |-> ForeignUrlOf(TitleB, UrlA, Chrome), parent |-> NoId,
                     root |-> "bookmark_bar"]>>),
     ForeignStore(<<[b |-> ForeignUrlOf(TitleA, UrlA, NoBrowser), parent |-> NoId,
                     root |-> "bookmark_bar"]>>),
     ForeignStore(<<[b |-> ForeignUrlOf(TitleB, UrlA, NoBrowser), parent |-> NoId,
                     root |-> "bookmark_bar"],
                    [b |-> ForeignUrlOf(TitleB, UrlANoSlash, Chrome), parent |-> NoId,
                     root |-> "bookmark_bar"]>>),
     ForeignStore(<<[b |-> ForeignUrlOf(TitleA, UrlA, NoBrowser), parent |-> NoId,
                     root |-> "bookmark_bar"],
                    [b |-> ForeignUrlOf(TitleB, UrlANoSlash, NoBrowser), parent |-> NoId,
                     root |-> "bookmark_bar"]>>),
     ForeignStore(<<[b |-> ForeignFolder(TitleA), parent |-> NoId, root |-> "other"],
                    [b |-> ForeignUrl(TitleA), parent |-> 3, root |-> "other"]>>)}

ImportAddBookmark == AddBookmarkOf(UserUrls({TitleA}, {UrlA}), {"bookmark_bar"})
ImportPlan == PlanImportOf(ImportFiles)

\* the editor and the store file import
NextImport ==
    \/ ImportAddBookmark
    \/ ImportPlan
    \/ ExecuteImport

SpecImport == Init /\ [][NextImport]_vars

\* ------------------------------------------------------- push to browsers
\* the artifacts a push copied to the backups directory
PushBacked(r) ==
    (IF r.sbackup # NoFile THEN {"store"} ELSE {})
    \cup (IF r.fbackup # NoPath THEN {"browser"} ELSE {})
    \cup (IF r.dbackup # NoPlaces THEN {"firefox"} ELSE {})

\* ExportWorker.run for one browser
PushToBrowser ==
    /\ pc = "idle"
    /\ \E browser_name \in {Chrome, Firefox}, running1 \in BOOLEAN,
          running2 \in BOOLEAN, copy_fails \in BOOLEAN, fail_at \in -1..MaxIds :
       \E r \in {push_to_browser(store, storeFile, NoFile, browserFile, NoPath,
                                 places, NoPlaces, browser_name,
                                 running1, running2, copy_fails, fail_at, now)} :
          /\ store' = r.st
          /\ storeFile' = r.storeFile
          /\ browserFile' = r.file
          /\ places' = r.db
          /\ last' = RetBacked("push_to_browser", IF r.ok THEN 1 ELSE 0, 0, r.err,
                               PushBacked(r))
    /\ UNCHANGED <<driverVars, fxwrite, urlVars, pc, plan, preview, foreign>>

\* Firefox itself adds a bookmark to its toolbar
FirefoxAdd ==
    /\ pc = "idle"
    /\ places.exists
    /\ Len(places.rows) < MaxPlacesRows
    /\ places' = [places EXCEPT !.rows =
                     Append(@, MozRow(_MOZ_MOBILE_ID + Len(places.rows) + 1,
                                      _MOZ_TYPE_BOOKMARK, _MOZ_TOOLBAR_ID,
                                      Len(places.rows), TitleB, UrlB))]
    /\ last' = NoRet
    /\ UNCHANGED <<driverVars, fxwrite, urlVars, store, storeFile, browserFile, pc, plan,
                   preview, foreign>>

\* write_firefox_bookmarks(store) is called: it returns at once when it
\* refuses, otherwise it has copied the database and opened its connection
FirefoxWriteBegin ==
    /\ pc = "idle"
    /\ \E running \in BOOLEAN :
       \E o \in {FirefoxOpen(store, places, NoPlaces, running)} :
          /\ fxwrite' = [conn |-> o.conn, backup |-> o.backup]
          /\ pc' = IF o.ok THEN "firefox_writing" ELSE "idle"
          /\ last' = IF o.ok THEN NoRet
                     ELSE Ret("write_firefox_bookmarks", 0, 0, "")
    /\ UNCHANGED <<driverVars, places, urlVars, store, storeFile, browserFile, plan,
                   preview, foreign>>

\* the call executes its next statement
FirefoxStep ==
    /\ pc = "firefox_writing"
    /\ ~(fxwrite.conn.done > 0 /\ fxwrite.conn.todo = <<>>)
    /\ \E s \in {FirefoxStatement(store, places, fxwrite.conn)} :
          /\ places' = s.db
          /\ fxwrite' = [fxwrite EXCEPT !.conn = s.conn]
    /\ last' = NoRet
    /\ UNCHANGED <<driverVars, urlVars, store, storeFile, browserFile, pc, plan,
                   preview, foreign>>

\* every row is inserted: conn.commit(), return True
FirefoxCommit ==
    /\ pc = "firefox_writing"
    /\ fxwrite.conn.done > 0
    /\ fxwrite.conn.todo = <<>>
    /\ places' = sql_commit(places, fxwrite.conn).db
    /\ last' = RetBacked("write_firefox_bookmarks", 1, fxwrite.conn.done, "",
                         {"firefox"})
    /\ fxwrite' = NoWrite
    /\ pc' = "idle"
    /\ UNCHANGED <<driverVars, urlVars, store, storeFile, browserFile, plan, preview, foreign>>

\* the next statement, or the commit, raises sqlite3.Error: return False
FirefoxFail ==
    /\ pc = "firefox_writing"
    /\ places' = sql_abandon(places, fxwrite.conn).db
    /\ last' = RetBacked("write_firefox_bookmarks", 0, fxwrite.conn.done, "",
                         {"firefox"})
    /\ fxwrite' = NoWrite
    /\ pc' = "idle"
    /\ UNCHANGED <<driverVars, urlVars, store, storeFile, browserFile, plan, preview, foreign>>

PushAddBookmark ==
    AddBookmarkOf(UserUrls({TitleA}, {UrlA}) \cup UserFolders({TitleA}),
                  {"bookmark_bar"})
PushBrowserAdd ==
    BrowserAddOf(BrowserUrls({TitleB}, {UrlB}, {NoDate}), {"bookmark_bar"})

\* the store pushed to Chrome and to Firefox
NextPush ==
    \/ PushAddBookmark
    \/ PushBrowserAdd
    \/ FirefoxAdd
    \/ PushToBrowser
    \/ FirefoxWriteBegin
    \/ FirefoxStep
    \/ FirefoxCommit
    \/ FirefoxFail

SpecPush == Init /\ [][NextPush]_vars

\* ---------------------------------------------------------- normalize_url
UrlInputs ==
    {Url(s, h, p, q, f) : s \in {"https", "HTTPS"}, h \in {"a.com", "A.COM"},
                          p \in {"", "/", "/p", "/p/", "/p;x", "/p;x/"},
                          q \in {"", "q=1", "q=2"}, f \in {"", "f"}}
    \cup {Url(s, "", "x", "", f) : s \in {"mailto", "MAILTO"}, f \in {"", "f"}}
    \cup {EmptyUrl}

InitUrl ==
    /\ InitStore
    /\ url \in UrlInputs
    /\ norm = EmptyUrl

\* normalize_url(url)
Normalize ==
    /\ last.op # "normalize_url"
    /\ norm' = normalize_url(url)
    /\ last' = Ret("normalize_url", 0, 0, "")
    /\ UNCHANGED <<driverVars, firefoxVars, url, store, storeFile, browserFile, pc, plan,
                   preview, foreign>>

\* the result is normalized in its turn
NormalizeAgain ==
    /\ last.op = "normalize_url"
    /\ url # norm
    /\ url' = norm
    /\ last' = NoRet
    /\ UNCHANGED <<driverVars, firefoxVars, norm, store, storeFile, browserFile, pc, plan,
                   preview, foreign>>

NextUrl ==
    \/ Normalize
    \/ NormalizeAgain

SpecUrl == InitUrl /\ [][NextUrl]_vars

\* --------------------------------------------------------- the store alone
\* the editor's handlers on their own: add, delete and move, each saved
NextStore ==
    \/ AddBookmark
    \/ RemoveBookmark
    \/ MoveBookmark

SpecStore == Init /\ [][NextStore]_vars

\* ------------------------------------------------- folder paths under sync
\* the folder title "A/B"
TitleAB == <<"A", "B">>

\* the browser files a folder, titled "A" or "A/B", or a bookmark
PathBrowserAdd ==
    BrowserAddOf(BrowserUrls({TitleA}, {UrlA}, {NoDate})
                    \cup BrowserFolders({TitleA, TitleAB}),
                 {"bookmark_bar", "other"})

\* the user creates a folder titled "A" or "A/B" in the editor
PathAddFolder == AddBookmarkOf(UserFolders({TitleA, TitleAB}), {"bookmark_bar"})

NextPath ==
    \/ PathBrowserAdd
    \/ PathAddFolder
    \/ PlanSync
    \/ ExecuteSync

SpecPath == Init /\ [][NextPath]_vars

\* -------------------------------------------------------- reading Firefox
MaxTmpDirs == 2      \* temporary directories that may exist at once

\* tempfile.mkdtemp(): a directory that did not exist
NewTmpDir(tmp) == Min((1..(Cardinality(tmp) + 1)) \ tmp)

\* _safe_copy_db(places_path): makes a temporary directory, opens the
\* live database with mode=ro and copies it there with the backup API.
\* When the copy raises sqlite3.Error it returns None and the directory
\* it made stays.  `opened` holds the mode each file was opened in.
_safe_copy_db(db, tmp, copy_fails) ==
    With(NewTmpDir(tmp), LAMBDA tmp_dir :
    [ok |-> ~copy_fails,
     tmp_dir |-> tmp_dir,
     copy |-> IF copy_fails THEN NoPlaces ELSE db,
     tmp |-> tmp \cup {tmp_dir},
     opened |-> {<<"places", "ro">>, <<"copy", "rw">>}])

\* _read_bookmarks_from_db(db_path) as far as it touches files: connects
\* to the copy, selects the bookmark and folder rows, closes; None when
\* the query raises sqlite3.Error.  The tree is then built in memory from
\* the rows selected.
_read_bookmarks_from_db(copy, query_fails) ==
    IF query_fails
    THEN [ok |-> FALSE, rows |-> <<>>]
    ELSE [ok |-> TRUE,
          rows |-> SelectSeq(copy.rows, LAMBDA r :
                       r.type \in {_MOZ_TYPE_BOOKMARK, _MOZ_TYPE_FOLDER})]

\* read_firefox_bookmarks(places_path): the rmtree sits in the finally of
\* the try around _read_bookmarks_from_db, after the return taken when
\* the copy failed
read_firefox_bookmarks(db, tmp, copy_fails, query_fails) ==
    IF ~db.exists
    THEN [ok |-> FALSE, rows |-> <<>>, tmp |-> tmp, opened |-> {}]
    ELSE With(_safe_copy_db(db, tmp, copy_fails), LAMBDA c :
         IF ~c.ok
         THEN [ok |-> FALSE, rows |-> <<>>, tmp |-> c.tmp, opened |-> c.opened]
         ELSE With(_read_bookmarks_from_db(c.copy, query_fails), LAMBDA r :
              [ok |-> r.ok, rows |-> r.rows, tmp |-> c.tmp \ {c.tmp_dir},
               opened |-> c.opened]))

\* read_firefox_bookmarks() is called; last.r2 is the number of rows read
FirefoxRead ==
    /\ pc = "idle"
    /\ Cardinality(tmpdirs) < MaxTmpDirs
    /\ \E copy_fails \in BOOLEAN, query_fails \in BOOLEAN :
       \E r \in {read_firefox_bookmarks(places, tmpdirs, copy_fails, query_fails)} :
          /\ tmpdirs' = r.tmp
          /\ last' = Ret("read_firefox_bookmarks", IF r.ok THEN 1 ELSE 0,
                         Len(r.rows), "")
    /\ UNCHANGED <<workers, firefoxVars, urlVars, store, storeFile, browserFile,
                   pc, plan, preview, foreign>>

\* Firefox read while the store is edited and pushed to it
NextRead ==
    \/ PushAddBookmark
    \/ FirefoxAdd
    \/ PushToBrowser
    \/ FirefoxRead

SpecRead == Init /\ [][NextRead]_vars

\* ------------------------------------------------ a save that is cut short
\* the store file after open(path, "w") emptied it and json.dump stopped
\* on an OSError part of the way: a prefix of the document `doc`
TornFile(doc) == [roots |-> <<>>, torn |-> TRUE, of |-> doc]

\* BookmarkStore.save when a write raises: last_modified is stamped
\* before the file is opened, the file is written in place
save_raises(st, stamp) == [st |-> save(st, stamp), file |-> TornFile(save(st, stamp))]

\* execute_sync whose closing store.save() raises; the exception leaves
\* execute_sync after the browser was written
execute_sync_save_raises(st, sfile, file, fbackup, actions, browser_name, running1, running2, stamp) ==
    With(execute_sync(st, sfile, file, fbackup, actions, browser_name,
                      running1, running2, stamp), LAMBDA r :
    IF r.store_changes = 0
    THEN r
    ELSE [r EXCEPT !.storeFile = save_raises(r.st, stamp).file,
                   !.error = "OSError"])

\* execute_sync with the approved actions, the disk failing during the save
ExecuteSyncSaveRaises ==
    /\ pc = "sync_planned"
    /\ \E approved \in Approved(plan), running1 \in BOOLEAN, running2 \in BOOLEAN :
       \E r \in {execute_sync_save_raises(store, storeFile, browserFile, NoPath,
                                          approved, Chrome, running1, running2, now)} :
          /\ r.store_changes > 0
          /\ WithinIds(r.st)
          /\ store' = r.st
          /\ storeFile' = r.storeFile
          /\ browserFile' = r.file
          /\ last' = RetBacked("execute_sync", r.store_changes, r.browser_changes,
                               r.error,
                               IF r.backup # NoPath THEN {"browser"} ELSE {})
    /\ pc' = "idle"
    /\ plan' = <<>>
    /\ UNCHANGED <<driverVars, firefoxVars, urlVars, preview, foreign>>

\* the sync handlers on a disk that may fail while the store is saved
NextSave ==
    \/ SyncAddBookmark
    \/ SyncBrowserAdd
    \/ PlanSync
    \/ ExecuteSync
    \/ ExecuteSyncSaveRaises

SpecSave == Init /\ [][NextSave]_vars

\* ------------------------------------------------- the driver's workers
MaxWorkers == 2      \* workers of one kind started and not yet finished with

\* worker threads that were started and have not returned from run()
Running == workers["import"].running + workers["export"].running

\* QThread.start() of a new worker of kind w
Started1(w) == [workers EXCEPT ![w].running = @ + 1]
\* a worker of kind w returns from run(): its finished signal is queued
Returned(w) == [workers EXCEPT ![w].running = @ - 1, ![w].finished = @ + 1]
\* the event loop delivers a finished signal of kind w
Delivered(w) == [workers EXCEPT ![w].finished = @ - 1]

\* BookmarkerApp._import_bookmarks: the dialogs are accepted, a new
\* ImportWorker is made for self.store and started; the handler returns
\* to the event loop.  Nothing is asked about workers already started.
StartImportWorker ==
    /\ pc = "idle"
    /\ workers["import"].running + workers["import"].finished < MaxWorkers
    /\ workers' = Started1("import")
    /\ last' = Ret("ImportWorker.start", 0, 0, "")
    /\ UNCHANGED <<tmpdirs, firefoxVars, urlVars, store, storeFile, browserFile,
                   pc, plan, preview, foreign>>

\* ImportWorker.run on its own thread, for one browser: import_from_browser
\* on the store it shares with the driver.  The run is taken as one step.
ImportWorkerRun ==
    /\ workers["import"].running > 0
    /\ \E r \in {import_from_browser(store, browserFile, Chrome, now)} :
          /\ WithinIds(r.st)
          /\ store' = r.st
          /\ last' = Ret("import_from_browser", r.added, r.skipped, r.err)
    /\ workers' = Returned("import")
    /\ UNCHANGED <<tmpdirs, firefoxVars, urlVars, storeFile, browserFile,
                   pc, plan, preview, foreign>>

\* on_finished of _import_bookmarks, run by the event loop: self.store.save()
ImportFinished ==
    /\ pc = "idle"
    /\ workers["import"].finished > 0
    /\ store' = save(store, now)
    /\ storeFile' = store'
    /\ workers' = Delivered("import")
    /\ last' = Ret("finished_import", 0, 0, "")
    /\ UNCHANGED <<tmpdirs, firefoxVars, urlVars, browserFile, pc, plan,
                   preview, foreign>>

\* BookmarkerApp._push_bookmarks: the dialog is accepted, no selected
\* browser is found running, a new ExportWorker is made for self.store
\* and started
StartExportWorker ==
    /\ pc = "idle"
    /\ workers["export"].running + workers["export"].finished < MaxWorkers
    /\ workers' = Started1("export")
    /\ last' = Ret("ExportWorker.start", 0, 0, "")
    /\ UNCHANGED <<tmpdirs, firefoxVars, urlVars, store, storeFile, browserFile,
                   pc, plan, preview, foreign>>

\* ExportWorker.run on its own thread, for one browser: push_to_browser
ExportWorkerRun ==
    /\ workers["export"].running > 0
    /\ \E running1 \in BOOLEAN, running2 \in BOOLEAN, copy_fails \in BOOLEAN :
       \E r \in {push_to_browser(store, storeFile, NoFile, browserFile, NoPath,
                                 places, NoPlaces, Chrome,
                                 running1, running2, copy_fails, -1, now)} :
          /\ store' = r.st
          /\ storeFile' = r.storeFile
          /\ browserFile' = r.file
          /\ last' = RetBacked("push_to_browser", IF r.ok THEN 1 ELSE 0, 0, r.err,
                               PushBacked(r))
    /\ workers' = Returned("export")
    /\ UNCHANGED <<tmpdirs, firefoxVars, urlVars, pc, plan, preview, foreign>>

\* on_finished of _push_bookmarks: reports, touches neither store nor file
ExportFinished ==
    /\ pc = "idle"
    /\ workers["export"].finished > 0
    /\ workers' = Delivered("export")
    /\ last' = Ret("finished_export", 0, 0, "")
    /\ UNCHANGED <<tmpdirs, firefoxVars, urlVars, store, storeFile, browserFile,
                   pc, plan, preview, foreign>>

\* the tray menu's handlers and the worker threads they start, with the
\* editor open and the browser changing its own file
NextDriver ==
    \/ SyncAddBookmark
    \/ PushBrowserAdd
    \/ PlanSync
    \/ ExecuteSync
    \/ StartImportWorker
    \/ ImportWorkerRun
    \/ ImportFinished
    \/ StartExportWorker
    \/ ExportWorkerRun
    \/ ExportFinished

SpecDriver == Init /\ [][NextDriver]_vars
\* ------------------------------------------------------------ properties
\* what plan_sync saw: in the state a plan_sync call leaves, the store and
\* the browser file are the ones the call read
PlannedOk == last.op = "plan_sync" /\ last.err = ""
Snap == read_chrome_bookmarks(browserFile, Chrome, now)
SnapEntries == CollectAll(Snap)
StoreEntries == CollectAll(store)
PlanIndices(type) == {j \in 1..Len(plan) : plan[j].action = type}
StoreDirectedTypes == {ADD_TO_STORE, UPDATE_STORE}
BrowserDirectedTypes == {ADD_TO_BROWSER, UPDATE_BROWSER}

\* C1: in every folder reachable from a root, the children's position
\* fields are exactly 0..n-1 in list order, whatever sequence of add,
\* remove, move (successful or failed), import, sync and file import ran.
PositionsContiguous(st) ==
    \A f \in Reachable(st) :
        \A i \in 1..Len(st.nodes[f].children) :
            st.nodes[st.nodes[f].children[i]].position = i - 1

C1_PositionsContiguous == PositionsContiguous(store)

\* a removal that found its node and left a sibling behind
C1_Witness ==
    /\ last.op = "remove"
    /\ last.r1 = 1
    /\ \E f \in Reachable(store) : Len(store.nodes[f].children) >= 1

\* C2: the store is a well-formed forest: following parent_id from any node
\* ends at a root (no cycle), and every non-root node's parent_id is the id
\* of an existing FOLDER that is reachable from a root and whose children
\* list contains the node, once.
RECURSIVE Climbs(_, _, _)
Climbs(st, n, k) ==
    IF n \in RootIds(st) THEN TRUE
    ELSE IF k = 0 \/ n \notin DOMAIN st.nodes THEN FALSE
    ELSE Climbs(st, st.nodes[n].parent_id, k - 1)

WellFormed(st) ==
    /\ \A n \in DOMAIN st.nodes : Climbs(st, n, Cardinality(DOMAIN st.nodes))
    /\ \A r \in RootIds(st) : st.nodes[r].type = FOLDER /\ st.nodes[r].parent_id = NoId
    /\ \A n \in DOMAIN st.nodes \ RootIds(st) :
          /\ st.nodes[n].parent_id \in DOMAIN st.nodes
          /\ st.nodes[st.nodes[n].parent_id].type = FOLDER
          /\ st.nodes[n].parent_id \in Reachable(st)
          /\ Cardinality({i \in 1..Len(st.nodes[st.nodes[n].parent_id].children) :
                             st.nodes[st.nodes[n].parent_id].children[i] = n}) = 1
    /\ \A f \in DOMAIN st.nodes :
          \A i \in 1..Len(st.nodes[f].children) :
              /\ st.nodes[f].children[i] \in DOMAIN st.nodes
              /\ st.nodes[st.nodes[f].children[i]].parent_id = f

C2_WellFormedForest == WellFormed(store)

\* a successful move that left a node inside a folder below a root
C2_Witness ==
    /\ last.op = "move"
    /\ last.r1 = 1
    /\ \E n \in DOMAIN store.nodes \ RootIds(store) :
          store.nodes[n].parent_id \notin RootIds(store)

\* C3: import_from_browser and execute_sync keep every id that was
\* reachable from the roots reachable, under the same parent and with the
\* same url and type.
KeepsNodes(st, st2) ==
    \A n \in Reachable(st) :
        /\ n \in Reachable(st2)
        /\ st2.nodes[n].parent_id = st.nodes[n].parent_id
        /\ HolderOf(st2, n) = HolderOf(st, n)
        /\ st2.nodes[n].url = st.nodes[n].url
        /\ st2.nodes[n].type = st.nodes[n].type

C3_NeverDeletes ==
    [][last'.op \in {"import_from_browser", "execute_sync"} => KeepsNodes(store, store')]_vars

\* a sync that changed the store while it held a bookmark of the user's
\* own and one that came from the browser
C3_Witness ==
    /\ last.op = "execute_sync"
    /\ last.r1 >= 1
    /\ \E n, m \in DOMAIN store.nodes :
          /\ store.nodes[n].type = URL /\ store.nodes[n].source_browser = NoBrowser
          /\ store.nodes[m].type = URL /\ store.nodes[m].source_browser = Chrome

\* C4: every URL bookmark in the browser's file before execute_sync is
\* still in the file after it, for any approved subset of the plan.
UrlsInFile(file) ==
    IF file.installed
    THEN {file.nodes[c].url : c \in {d \in DOMAIN file.nodes : file.nodes[d].type = URL}}
    ELSE {}

C4_BrowserAdditive ==
    [][last'.op = "execute_sync" => UrlsInFile(browserFile) \subseteq UrlsInFile(browserFile')]_vars

\* C5: a plan holds only ADD_TO_STORE, UPDATE_STORE and ADD_TO_BROWSER
\* actions, every store-directed one before every browser-directed one.
C5_PlanVocabularyAndOrder ==
    /\ \A j \in 1..Len(plan) :
          plan[j].action \in {ADD_TO_STORE, UPDATE_STORE, ADD_TO_BROWSER}
    /\ \A i, j \in 1..Len(plan) :
          (plan[i].action = ADD_TO_BROWSER /\ plan[j].action \in StoreDirectedTypes)
              => j < i

\* a plan holding all three kinds of action
C5_Witness ==
    /\ PlanIndices(ADD_TO_STORE) # {}
    /\ PlanIndices(UPDATE_STORE) # {}
    /\ PlanIndices(ADD_TO_BROWSER) # {}

\* C6: plan_sync leaves the in-memory store, the store file and the
\* browser's file unchanged; when the browser cannot be read it returns an
\* empty action list, no snapshot and an error string.
C6_PlanIsPure ==
    [][last'.op = "plan_sync" =>
          /\ store' = store
          /\ storeFile' = storeFile
          /\ browserFile' = browserFile
          /\ ~browserFile.installed =>
                (plan' = <<>> /\ last'.r1 = 0 /\ last'.r2 = 0 /\ last'.err # "")
          /\ browserFile.installed => (last'.r2 = 1 /\ last'.err = "")]_vars

\* a failed plan_sync on a store that holds bookmarks
C6_Witness ==
    /\ last.op = "plan_sync"
    /\ last.err # ""
    /\ all_bookmarks(store) # <<>>

\* the key of the bookmark an action carries
ActionKey(a) == <<normalize_url(a.url), a.root_name, a.parent_title>>
\* the last bookmark, in traversal order, among the entries es of st with key k
LastWithKey(st, es, k) ==
    es[Max({i \in 1..Len(es) : SyncKey(st, es[i]) = k})].bm
\* the store node plan_sync resolves the snapshot bookmark b with key k to
Matched(b, k) == Existing(store, _build_lookup(store), Chrome, Snap.nodes[b], k)

\* C7 as stated: for every URL bookmark of the browser snapshot: when
\* neither the source-id lookup nor the key lookup finds a store node the
\* plan holds exactly one ADD_TO_STORE for that bookmark, otherwise none.
C7_AddToStoreForEachUnmatched ==
    PlannedOk =>
        \A i \in 1..Len(SnapEntries) :
            IF Matched(SnapEntries[i].bm, SyncKey(Snap, SnapEntries[i])) = NoId
            THEN Cardinality({j \in PlanIndices(ADD_TO_STORE) :
                                 plan[j].bm = SnapEntries[i].bm}) = 1
            ELSE {j \in PlanIndices(ADD_TO_STORE) : plan[j].bm = SnapEntries[i].bm} = {}

\* C7: for every key held by a URL bookmark of the snapshot, with b the
\* last snapshot bookmark with that key: when neither the source-id lookup
\* of b nor the key lookup finds a store node the plan holds exactly one
\* ADD_TO_STORE for the key, and it carries b; otherwise the plan holds
\* none for the key.  Every ADD_TO_STORE of the plan is for such a key.
C7_AddToStorePerKey ==
    PlannedOk =>
        /\ \A i \in 1..Len(SnapEntries) :
              IF Matched(LastWithKey(Snap, SnapEntries, SyncKey(Snap, SnapEntries[i])),
                         SyncKey(Snap, SnapEntries[i])) = NoId
              THEN /\ Cardinality({j \in PlanIndices(ADD_TO_STORE) :
                                      ActionKey(plan[j]) = SyncKey(Snap, SnapEntries[i])}) = 1
                   /\ \A j \in PlanIndices(ADD_TO_STORE) :
                         ActionKey(plan[j]) = SyncKey(Snap, SnapEntries[i])
                             => plan[j].bm = LastWithKey(Snap, SnapEntries,
                                                         SyncKey(Snap, SnapEntries[i]))
              ELSE {j \in PlanIndices(ADD_TO_STORE) :
                       ActionKey(plan[j]) = SyncKey(Snap, SnapEntries[i])} = {}
        /\ \A j \in PlanIndices(ADD_TO_STORE) :
              \E i \in 1..Len(SnapEntries) :
                  ActionKey(plan[j]) = SyncKey(Snap, SnapEntries[i])

\* two browser bookmarks sharing a key the store lacks, one action for both
C7_Witness ==
    /\ PlannedOk
    /\ \E i, k \in 1..Len(SnapEntries) :
          /\ i < k
          /\ SyncKey(Snap, SnapEntries[i]) = SyncKey(Snap, SnapEntries[k])
          /\ Matched(SnapEntries[k].bm, SyncKey(Snap, SnapEntries[k])) = NoId
    /\ Cardinality(PlanIndices(ADD_TO_STORE)) = 1

\* C8 as stated: every store URL bookmark whose key is absent from the
\* browser lookup has an ADD_TO_BROWSER action of its own, every one whose
\* key is present has none.
C8_AddToBrowserForEachMissing ==
    PlannedOk =>
        \A i \in 1..Len(StoreEntries) :
            IF SyncKey(store, StoreEntries[i]) \notin DOMAIN _build_lookup(Snap).val
            THEN {j \in PlanIndices(ADD_TO_BROWSER) : plan[j].bm = StoreEntries[i].bm} # {}
            ELSE {j \in PlanIndices(ADD_TO_BROWSER) : plan[j].bm = StoreEntries[i].bm} = {}

\* C8: for every key held by a store URL bookmark: when the key is absent
\* from the browser lookup the plan holds exactly one ADD_TO_BROWSER for
\* that key, and it carries the last store bookmark with the key; when the
\* key is present the plan holds none for it.  Every ADD_TO_BROWSER of the
\* plan is for such a key.
C8_AddToBrowserPerKey ==
    PlannedOk =>
        /\ \A i \in 1..Len(StoreEntries) :
              IF SyncKey(store, StoreEntries[i]) \notin DOMAIN _build_lookup(Snap).val
              THEN /\ Cardinality({j \in PlanIndices(ADD_TO_BROWSER) :
                                      ActionKey(plan[j]) = SyncKey(store, StoreEntries[i])}) = 1
                   /\ \A j \in PlanIndices(ADD_TO_BROWSER) :
                         ActionKey(plan[j]) = SyncKey(store, StoreEntries[i])
                             => plan[j].bm = LastWithKey(store, StoreEntries,
                                                         SyncKey(store, StoreEntries[i]))
              ELSE {j \in PlanIndices(ADD_TO_BROWSER) :
                       ActionKey(plan[j]) = SyncKey(store, StoreEntries[i])} = {}
        /\ \A j \in PlanIndices(ADD_TO_BROWSER) :
              \E i \in 1..Len(StoreEntries) :
                  ActionKey(plan[j]) = SyncKey(store, StoreEntries[i])

\* two store bookmarks sharing a key the browser lacks, one action for both
C8_Witness ==
    /\ PlannedOk
    /\ \E i, k \in 1..Len(StoreEntries) :
          /\ i < k
          /\ SyncKey(store, StoreEntries[i]) = SyncKey(store, StoreEntries[k])
          /\ SyncKey(store, StoreEntries[i]) \notin DOMAIN _build_lookup(Snap).val
    /\ Cardinality(PlanIndices(ADD_TO_BROWSER)) = 1

\* C9: for every browser URL bookmark plan_sync matches to a store node, the
\* plan holds an UPDATE_STORE for it if and only if both stamps parse, with
\* or without a UTC offset, and the browser's is strictly later.
ParsesAndLater(browser_mod, store_mod) ==
    /\ browser_mod.kind # "bad"
    /\ store_mod.kind # "bad"
    /\ browser_mod.t > store_mod.t

C9_UpdateIffNewer ==
    PlannedOk =>
        \A k \in DOMAIN _build_lookup(Snap).val :
            Matched(_build_lookup(Snap).val[k], k) # NoId
            => ((\E j \in PlanIndices(UPDATE_STORE) : plan[j].bm = _build_lookup(Snap).val[k])
                <=> ParsesAndLater(
                        Snap.nodes[_build_lookup(Snap).val[k]].date_modified,
                        store.nodes[Matched(_build_lookup(Snap).val[k], k)].date_modified))

\* C10: with the browser reported running, execute_sync on an approved list
\* holding store-directed and browser-directed actions applies every
\* store-directed action and saves the store, leaves the browser's file as
\* it is, returns browser_changes = 0 and an error that says the browser is
\* running.
CountOf(actions, types) == Len(SelectSeq(actions, LAMBDA a : a.action \in types))
RunningOutcome(approved) ==
    execute_sync(store, storeFile, browserFile, NoPath, approved, Chrome, TRUE, TRUE, now)

C10_RunningBrowser ==
    pc = "sync_planned" =>
        \A approved \in Approved(plan) :
            (CountOf(approved, StoreDirectedTypes) > 0
             /\ CountOf(approved, BrowserDirectedTypes) > 0)
            => /\ RunningOutcome(approved).store_changes
                      = CountOf(approved, StoreDirectedTypes)
               /\ RunningOutcome(approved).storeFile = RunningOutcome(approved).st
               /\ RunningOutcome(approved).st.last_modified = now
               /\ RunningOutcome(approved).file = browserFile
               /\ RunningOutcome(approved).browser_changes = 0
               /\ RunningOutcome(approved).error = "is running. Browser changes not applied."

\* C11: one execute_sync call makes at most one browser write.  With the
\* browser not running: if the approved list holds a browser-directed action,
\* wherever it stands in the list, the call makes exactly one call of the
\* codec's write, and what is written is the entire store as it is after all
\* the store-directed actions of the list were applied; if the list holds no
\* browser-directed action the call makes no write and the file is untouched.
Orderings(s) ==
    UNION {{[i \in 1..Len(a) |-> a[p[i]]] : p \in Permutations(1..Len(a))} :
              a \in Approved(s)}
StoreDirectedOf(approved) ==
    SelectSeq(approved, LAMBDA a : a.action \in StoreDirectedTypes)
SyncOutcome(approved, running2) ==
    execute_sync(store, storeFile, browserFile, NoPath, approved, Chrome,
                 FALSE, running2, now)

C11_OneBrowserWrite ==
    pc = "sync_planned" =>
        \A approved \in Orderings(plan), running2 \in BOOLEAN :
            /\ SyncOutcome(approved, running2).writes <= 1
            /\ CountOf(approved, BrowserDirectedTypes) > 0 =>
                  /\ SyncOutcome(approved, running2).writes = 1
                  /\ SyncOutcome(approved, running2).st
                        = SyncOutcome(StoreDirectedOf(approved), running2).st
                  /\ (~running2 /\ browserFile.installed) =>
                        SyncOutcome(approved, running2).file
                           = StoreToChromeFile(SyncOutcome(approved, running2).st)
            /\ CountOf(approved, BrowserDirectedTypes) = 0 =>
                  /\ SyncOutcome(approved, running2).writes = 0
                  /\ SyncOutcome(approved, running2).file = browserFile

\* an execute_sync that applied a store-directed action and pushed the
\* store it left to the browser
C11_Witness ==
    /\ last.op = "execute_sync"
    /\ last.r1 >= 1
    /\ last.r2 >= 1
    /\ browserFile = StoreToChromeFile(store)

\* C12: browser writes are refused while the browser runs.  When its
\* running-process check answers true, push_to_browser fails with the error
\* that says the browser is running, write_chrome_bookmarks and
\* write_firefox_bookmarks return failure; none of them takes a backup or
\* changes the browser's file; and a call that changed a browser file had
\* every running-process check it made answer false.
PushOutcome(browser_name, running1, running2, copy_fails, fail_at) ==
    push_to_browser(store, storeFile, NoFile, browserFile, NoPath, places, NoPlaces,
                    browser_name, running1, running2, copy_fails, fail_at, now)

C12_RefusedWhileRunning ==
    pc = "idle" =>
    \A browser_name \in {Chrome, Firefox}, running2 \in BOOLEAN,
       copy_fails \in BOOLEAN, fail_at \in -1..MaxIds :
        /\ ~PushOutcome(browser_name, TRUE, running2, copy_fails, fail_at).ok
        /\ PushOutcome(browser_name, TRUE, running2, copy_fails, fail_at).err
              = "is running. Please close it first."
        /\ PushOutcome(browser_name, TRUE, running2, copy_fails, fail_at).file = browserFile
        /\ PushOutcome(browser_name, TRUE, running2, copy_fails, fail_at).db = places
        /\ PushOutcome(browser_name, TRUE, running2, copy_fails, fail_at).sbackup = NoFile
        /\ PushOutcome(browser_name, TRUE, running2, copy_fails, fail_at).fbackup = NoPath
        /\ PushOutcome(browser_name, TRUE, running2, copy_fails, fail_at).dbackup = NoPlaces
        /\ write_chrome_bookmarks(store, browserFile, NoPath, TRUE)
              = [ok |-> FALSE, file |-> browserFile, backup |-> NoPath]
        /\ write_firefox_bookmarks(store, places, NoPlaces, TRUE, fail_at)
              = [ok |-> FALSE, db |-> places, backup |-> NoPlaces]
        /\ write_chrome_bookmarks(store, browserFile, NoPath, running2).file # browserFile
              => ~running2
        /\ write_firefox_bookmarks(store, places, NoPlaces, running2, fail_at).db # places
              => ~running2
        /\ \A running1 \in BOOLEAN :
              (\/ PushOutcome(browser_name, running1, running2, copy_fails, fail_at).file
                     # browserFile
               \/ PushOutcome(browser_name, running1, running2, copy_fails, fail_at).db
                     # places)
              => ~running1 /\ ~running2

\* a push refused because the browser runs, with a store that differs from
\* what the browser's file holds
C12_Witness ==
    /\ last.op = "push_to_browser"
    /\ last.r1 = 0
    /\ last.err = "is running. Please close it first."
    /\ browserFile.installed
    /\ all_bookmarks(store) # <<>>
    /\ browserFile # StoreToChromeFile(store)

\* C13: a backup precedes every destructive rewrite: an operation that
\* overwrites the store file, or the browser's bookmark file, copies the
\* file's previous content to the backups directory first.
C13_BackupBeforeRewrite ==
    [][/\ (storeFile # NoFile /\ storeFile' # storeFile) => "store" \in last'.backed
       /\ (last'.op # "none" /\ browserFile.installed /\ browserFile' # browserFile)
             => "browser" \in last'.backed]_vars

\* C14: when the store backup fails, execute_import, in either mode,
\* returns (0, 0, error) and leaves the in-memory store as it was: roots,
\* last_modified and every node.
C14_BackupFailureAborts ==
    pc = "import_planned" =>
        \A mode \in {OVERWRITE, MERGE},
           res \in [1..Len(preview.conflicts) -> {KEEP_EXISTING, USE_IMPORTED, Unresolved}] :
            /\ execute_import(store, storeFile, NoFile, Resolve(preview, res),
                              foreign, mode, TRUE, now).added = 0
            /\ execute_import(store, storeFile, NoFile, Resolve(preview, res),
                              foreign, mode, TRUE, now).updated = 0
            /\ execute_import(store, storeFile, NoFile, Resolve(preview, res),
                              foreign, mode, TRUE, now).err = "Failed to create backup"
            /\ execute_import(store, storeFile, NoFile, Resolve(preview, res),
                              foreign, mode, TRUE, now).st = store

\* C15: plan_import leaves the store unchanged and sorts every URL bookmark
\* of the import file into one of three outcomes.
ImportEntries == CollectWithPaths(foreign)
StoreEntriesWithPaths == CollectWithPaths(store)
\* the store entries that have the key of the import entry e
SameKey(e) ==
    {i \in 1..Len(StoreEntriesWithPaths) :
        _dedup_key(store.nodes[StoreEntriesWithPaths[i].bm].url,
                   StoreEntriesWithPaths[i].folder_path)
           = _dedup_key(foreign.nodes[e.bm].url, e.folder_path)}
TitleAt(i) == store.nodes[StoreEntriesWithPaths[i].bm].title
ItemsOf(es) == [j \in 1..Len(es) |-> ImportItem(foreign, es[j])]
ImportedOf(conflicts) == [j \in 1..Len(conflicts) |-> conflicts[j].imported]
Addable == SelectSeq(ImportEntries, LAMBDA e : SameKey(e) = {})

\* C15 as stated: conflict iff some store bookmark with the key has another
\* title, neither when some store bookmark with the key has the same title,
\* addable iff no store bookmark has the key.
C15_Classified ==
    /\ preview.bookmarks_to_add = ItemsOf(Addable)
    /\ ImportedOf(preview.conflicts)
          = ItemsOf(SelectSeq(ImportEntries, LAMBDA e :
                       \E i \in SameKey(e) : TitleAt(i) # foreign.nodes[e.bm].title))
    /\ \A j \in 1..Len(ImportEntries) :
          (\E i \in SameKey(ImportEntries[j]) :
              TitleAt(i) = foreign.nodes[ImportEntries[j].bm].title)
          => ImportItem(foreign, ImportEntries[j]) \notin Range(ImportedOf(preview.conflicts))

C15_ClassifiesAgainstAny ==
    [][last'.op = "plan_import" =>
          /\ store' = store
          /\ storeFile' = storeFile
          /\ C15_Classified']_vars

\* C15 amended: the import bookmark is compared with the last store
\* bookmark, in traversal order, that has its key: conflict iff that one's
\* title differs, neither iff it is the same, addable iff no store bookmark
\* has the key; a conflict names that last store bookmark.
C15_ClassifiedLast ==
    /\ preview.bookmarks_to_add = ItemsOf(Addable)
    /\ ImportedOf(preview.conflicts)
          = ItemsOf(SelectSeq(ImportEntries, LAMBDA e :
                       /\ SameKey(e) # {}
                       /\ TitleAt(Max(SameKey(e))) # foreign.nodes[e.bm].title))
    /\ \A j \in 1..Len(preview.conflicts) :
          /\ preview.conflicts[j].resolution = Unresolved
          /\ \E i \in 1..Len(StoreEntriesWithPaths) :
                /\ StoreEntriesWithPaths[i].bm = preview.conflicts[j].existing
                /\ _dedup_key(store.nodes[StoreEntriesWithPaths[i].bm].url,
                              StoreEntriesWithPaths[i].folder_path)
                      = _dedup_key(preview.conflicts[j].imported.url,
                                   preview.conflicts[j].imported.folder_path)
                /\ \A k \in 1..Len(StoreEntriesWithPaths) :
                      (k > i) =>
                        _dedup_key(store.nodes[StoreEntriesWithPaths[k].bm].url,
                                   StoreEntriesWithPaths[k].folder_path)
                           # _dedup_key(preview.conflicts[j].imported.url,
                                        preview.conflicts[j].imported.folder_path)

C15_ClassifiesAgainstLast ==
    [][last'.op = "plan_import" =>
          /\ store' = store
          /\ storeFile' = storeFile
          /\ C15_ClassifiedLast']_vars

\* a plan that found a conflict in a store holding two bookmarks with the
\* conflict's key
C15_Witness ==
    /\ last.op = "plan_import"
    /\ Len(preview.conflicts) >= 1
    /\ \E e \in Range(ImportEntries) : Cardinality(SameKey(e)) >= 2

\* C16: execute_import in MERGE mode.
Resolutions ==
    [1..Len(preview.conflicts) -> {KEEP_EXISTING, USE_IMPORTED, Unresolved}]
MergeOutcome(res) ==
    execute_import(store, storeFile, NoFile, Resolve(preview, res), foreign,
                   MERGE, FALSE, now)
\* the URL nodes the merge created, with their folder paths
NewUrlEntries(res) ==
    SelectSeq(CollectWithPaths(MergeOutcome(res).st),
              LAMBDA e : e.bm \notin DOMAIN store.nodes)
EntryItem(st, e) ==
    [title |-> st.nodes[e.bm].title,
     url |-> st.nodes[e.bm].url,
     date_modified |-> st.nodes[e.bm].date_modified,
     preferred_browser |-> st.nodes[e.bm].preferred_browser,
     folder_path |-> e.folder_path]
\* one new URL node per addable entry, at the entry's folder path, and the
\* count returned
AddsEachAddable(res) ==
    /\ MergeOutcome(res).err = ""
    /\ MergeOutcome(res).added = Len(preview.bookmarks_to_add)
    /\ Len(NewUrlEntries(res)) = Len(preview.bookmarks_to_add)
    /\ \A it \in Range(preview.bookmarks_to_add) :
          Cardinality({i \in 1..Len(NewUrlEntries(res)) :
                          EntryItem(MergeOutcome(res).st, NewUrlEntries(res)[i]) = it})
             = Cardinality({j \in 1..Len(preview.bookmarks_to_add) :
                               preview.bookmarks_to_add[j] = it})
ConflictTargets == {preview.conflicts[j].existing : j \in 1..Len(preview.conflicts)}
\* the conflicts resolved "use imported" that name the store node x
Used(res, x) ==
    {j \in 1..Len(preview.conflicts) :
        preview.conflicts[j].existing = x /\ res[j] = USE_IMPORTED}
UsedWithPreference(res, x) ==
    {j \in Used(res, x) : preview.conflicts[j].imported.preferred_browser # NoBrowser}

\* C16 as stated: after the merge, for each conflict resolved "use imported"
\* the existing node has the imported node's title, date_modified and
\* preferred_browser; for each conflict kept or left unresolved the existing
\* node is unchanged; added and updated are the number of URL nodes added
\* and the number of existing nodes overwritten.
C16_MergeAppliesEachConflict ==
    pc = "import_planned" =>
        \A res \in Resolutions :
            /\ AddsEachAddable(res)
            /\ \A j \in 1..Len(preview.conflicts) :
                  IF res[j] = USE_IMPORTED
                  THEN /\ MergeOutcome(res).st.nodes[preview.conflicts[j].existing].title
                             = preview.conflicts[j].imported.title
                       /\ MergeOutcome(res).st.nodes[preview.conflicts[j].existing].date_modified
                             = preview.conflicts[j].imported.date_modified
                       /\ MergeOutcome(res).st.nodes[preview.conflicts[j].existing].preferred_browser
                             = preview.conflicts[j].imported.preferred_browser
                  ELSE MergeOutcome(res).st.nodes[preview.conflicts[j].existing]
                          = store.nodes[preview.conflicts[j].existing]
            /\ MergeOutcome(res).updated
                  = Cardinality({x \in ConflictTargets : Used(res, x) # {}})

\* C16 amended: the merge adds one new URL node per addable entry at its
\* folder path and returns their number as added.  A store node named by
\* no conflict resolved "use imported" is unchanged; otherwise its title
\* and date_modified are those of the imported node of the last such
\* conflict, and its preferred_browser is that of the last such conflict
\* whose imported node has one, or unchanged when none has.  updated is the
\* number of conflicts resolved "use imported".
C16_MergeAppliesLastConflict ==
    pc = "import_planned" =>
        \A res \in Resolutions :
            /\ AddsEachAddable(res)
            /\ \A x \in ConflictTargets :
                  IF Used(res, x) = {}
                  THEN MergeOutcome(res).st.nodes[x] = store.nodes[x]
                  ELSE /\ MergeOutcome(res).st.nodes[x].title
                             = preview.conflicts[Max(Used(res, x))].imported.title
                       /\ MergeOutcome(res).st.nodes[x].date_modified
                             = preview.conflicts[Max(Used(res, x))].imported.date_modified
                       /\ MergeOutcome(res).st.nodes[x].preferred_browser
                             = IF UsedWithPreference(res, x) = {}
                               THEN store.nodes[x].preferred_browser
                               ELSE preview.conflicts[Max(UsedWithPreference(res, x))]
                                       .imported.preferred_browser
                       /\ MergeOutcome(res).st.nodes[x].url = store.nodes[x].url
            /\ MergeOutcome(res).updated
                  = Cardinality({j \in 1..Len(preview.conflicts) : res[j] = USE_IMPORTED})

\* a merge that overwrote, from an imported bookmark without a preference,
\* a store bookmark that has one
C16_Witness ==
    /\ last.op = "execute_import_merge"
    /\ last.err = ""
    /\ last.r2 >= 1
    /\ \E n \in DOMAIN store.nodes :
          /\ store.nodes[n].title = TitleA
          /\ store.nodes[n].preferred_browser = Chrome

\* C17: normalize_url is idempotent, and two URLs that differ only in the
\* case of the scheme, the case of the host, a trailing slash on the path
\* or the fragment normalize to the same string.
UrlStrings == {"", "https", "HTTPS", "mailto", "MAILTO", "a.com", "A.COM"}
UrlPaths == {"", "/", "/p", "/p/", "/p;x", "/p;x/", "x"}
UrlQueries == {"", "q=1", "q=2"}
UrlFragments == {"", "f"}
Variants(u) ==
    {Url(s, h, p, u.query, f) :
        s \in {x \in UrlStrings : Lower(x) = Lower(u.scheme)},
        h \in {x \in UrlStrings : Lower(x) = Lower(u.host)},
        p \in {x \in UrlPaths : RStripSlash(x) = RStripSlash(u.path)},
        f \in UrlFragments}

C17_IdempotentInsensitive ==
    last.op = "normalize_url" =>
        /\ normalize_url(norm) = norm
        /\ \A v \in Variants(url) : normalize_url(v) = norm

\* C18: for a URL with a host, normalize_url keeps the query string, so
\* that URLs differing in their query string alone normalize differently.
C18_KeepsQuery ==
    (last.op = "normalize_url" /\ url.host # "") =>
        /\ norm.query = url.query
        /\ \A q \in UrlQueries \ {url.query} :
              normalize_url([url EXCEPT !.query = q]) # norm

\* C19: import is idempotent: a snapshot whose N URL bookmarks have pairwise
\* distinct (normalized url, folder path) gives added = N, skipped = 0 when
\* imported into an empty store, and added = 0, skipped = N and an
\* unchanged tree when imported again.
DistinctKeys(es) ==
    \A i, j \in 1..Len(es) :
        i # j => SyncKey(Snap, es[i]) # SyncKey(Snap, es[j])

C19_ImportIdempotent ==
    [][(last'.op = "import_from_browser" /\ last'.err = "" /\ DistinctKeys(SnapEntries)) =>
          /\ all_bookmarks(store) = <<>> =>
                (last'.r1 = Len(SnapEntries) /\ last'.r2 = 0)
          /\ (last.op = "import_from_browser" /\ last.err = "") =>
                /\ last'.r1 = 0
                /\ last'.r2 = Len(SnapEntries)
                /\ store'.nodes = store.nodes
                /\ store'.roots = store.roots]_vars

\* C20: write_firefox_bookmarks is atomic: while the call runs the database
\* on disk holds the rows it had when the call began; when the call returns
\* failure, at whichever statement, the database is as it was; when it
\* returns success the database holds the rows built from the store.
C20_FirefoxAtomic ==
    [][/\ pc' = "firefox_writing" => places' = fxwrite'.backup
       /\ (last'.op = "write_firefox_bookmarks" /\ last'.r1 = 0) =>
             (places' = places /\ (pc = "firefox_writing" => places' = fxwrite.backup))
       /\ (last'.op = "write_firefox_bookmarks" /\ last'.r1 = 1) =>
             places'.rows = StoreToMozRows(store)
       /\ (last'.op = "push_to_browser" /\ places' # places) =>
             (last'.r1 = 1 /\ places'.rows = StoreToMozRows(store'))]_vars

\* a write that failed after the DELETE and an INSERT, on a database that
\* held a bookmark
C20_Witness ==
    /\ last.op = "write_firefox_bookmarks"
    /\ last.r1 = 0
    /\ last.r2 >= 2
    /\ places.rows # <<>>

\* C25: a failed move changes nothing: store.move returns False exactly
\* when the id is not in the store or the new parent is not an existing
\* folder (the moved node itself and its descendants included), and then
\* the store is as it was.
Subtree(st, id) == {id} \cup Range(PreOrder(st.nodes, st.nodes[id].children))

MoveMustFail(st, id, new_parent_id) ==
    \/ id \notin Reachable(st)
    \/ new_parent_id \notin Folders(st)
    \/ new_parent_id \in Subtree(st, id)

C25_FailedMoveChangesNothing ==
    \A id \in IdArgs \ RootIds(store), new_parent_id \in IdArgs,
       position \in -1..MaxPosition :
        /\ move(store, id, new_parent_id, position, now).ok
              = ~MoveMustFail(store, id, new_parent_id)
        /\ ~move(store, id, new_parent_id, position, now).ok =>
              move(store, id, new_parent_id, position, now).st = store

\* C26: store.add inserts the node exactly once, as the last child of the
\* folder parent_id names, or of the root named by root when parent_id is
\* absent, unknown or names a URL node; the node's parent_id and position
\* are that folder's id and its previous child count.
AddTarget(st, parent_id, root) ==
    IF parent_id \in Folders(st) THEN parent_id ELSE st.roots[root]

TimesHeld(st, id) ==
    Cardinality({p \in Reachable(st) \X (1..MaxIds) :
                    /\ p[2] <= Len(st.nodes[p[1]].children)
                    /\ st.nodes[p[1]].children[p[2]] = id})

AddedAsLastChild(st, b, parent_id, root) ==
    With(AddTarget(st, parent_id, root), LAMBDA target :
    With(add(st, FreshId(st), b, parent_id, root, now), LAMBDA st2 :
        /\ st2.nodes[target].children = Append(st.nodes[target].children, FreshId(st))
        /\ TimesHeld(st2, FreshId(st)) = 1
        /\ st2.nodes[FreshId(st)].parent_id = target
        /\ st2.nodes[FreshId(st)].position = Len(st.nodes[target].children)))

RECURSIVE TitleChain(_, _)
TitleChain(st, n) ==
    IF st.nodes[n].parent_id \in RootIds(st) \/ st.nodes[n].parent_id \notin DOMAIN st.nodes
    THEN <<>>
    ELSE Append(TitleChain(st, st.nodes[n].parent_id),
                st.nodes[st.nodes[n].parent_id].title)

RECURSIVE TopOf(_, _)
TopOf(st, n) ==
    IF st.nodes[n].parent_id \in RootIds(st) \/ st.nodes[n].parent_id \notin DOMAIN st.nodes
    THEN st.nodes[n].parent_id
    ELSE TopOf(st, st.nodes[n].parent_id)

RootNameOf(st, n) == CHOOSE r \in DOMAIN st.roots : st.roots[r] = TopOf(st, n)

NoTwinFolders(st, st2) ==
    \A f \in Folders(st2) :
        \A i, k \in 1..Len(st2.nodes[f].children) :
            (/\ i < k
             /\ st2.nodes[st2.nodes[f].children[i]].type = FOLDER
             /\ st2.nodes[st2.nodes[f].children[k]].type = FOLDER
             /\ st2.nodes[st2.nodes[f].children[i]].title
                   = st2.nodes[st2.nodes[f].children[k]].title)
            => st2.nodes[f].children[k] \in Reachable(st)

PlacedLikeSnapshot(st2, a) ==
    /\ \E n \in Reachable(st2) \ Reachable(store) :
          /\ st2.nodes[n].type = URL
          /\ st2.nodes[n].url = a.url
          /\ st2.nodes[n].source_browser = Chrome
          /\ st2.nodes[n].source_id = a.source_id
          /\ RootNameOf(st2, n) = RootNameOf(Snap, a.bm)
          /\ TitleChain(st2, n) = TitleChain(Snap, a.bm)
    /\ NoTwinFolders(store, st2)

C27_AddToStoreAtPath ==
    (PlannedOk /\ pc = "sync_planned") =>
        \A j \in PlanIndices(ADD_TO_STORE) :
            PlacedLikeSnapshot(SyncOutcome(<<plan[j]>>, FALSE).st, plan[j])

\* C28: plan and execute agree on the target of an update: executing an
\* UPDATE_STORE action of the plan on the unchanged store overwrites title
\* and date_modified of the store node plan_sync matched to the browser
\* bookmark, changes no other node, and counts one store change.
UpdateOutcome(a) == SyncOutcome(<<a>>, FALSE)

UpdatesMatched(a, m) ==
    /\ UpdateOutcome(a).store_changes = 1
    /\ UpdateOutcome(a).st.nodes[m].title = a.title
    /\ UpdateOutcome(a).st.nodes[m].date_modified = a.date_modified
    /\ \A n \in Reachable(store) \ {m} : UpdateOutcome(a).st.nodes[n] = store.nodes[n]

C28_UpdateTargetAgrees ==
    (PlannedOk /\ pc = "sync_planned") =>
        \A j \in PlanIndices(UPDATE_STORE) :
            UpdatesMatched(plan[j], Matched(plan[j].bm, ActionKey(plan[j])))

\* C29: sync converges: when every action of the plan is approved and
\* execute_sync, with the browser not running, returns no error, the
\* plan_sync that follows, on the store and the browser file that call
\* left, returns no action.
FullOutcome == SyncOutcome(plan, FALSE)

C29_SyncConverges ==
    (PlannedOk /\ pc = "sync_planned" /\ FullOutcome.error = "") =>
        plan_sync(FullOutcome.st, FullOutcome.file, Chrome, Later).actions = <<>>

\* C30: file merge is idempotent: after execute_import in MERGE mode
\* applied the preview with every conflict resolved "use imported", a
\* second plan_import of the same file on the store that call left finds
\* nothing to add and no conflict.
UseImportedEverywhere == [j \in 1..Len(preview.conflicts) |-> USE_IMPORTED]

C30_MergeIdempotent ==
    (pc = "import_planned" /\ MergeOutcome(UseImportedEverywhere).err = "") =>
        /\ plan_import(MergeOutcome(UseImportedEverywhere).st, foreign).bookmarks_to_add = <<>>
        /\ plan_import(MergeOutcome(UseImportedEverywhere).st, foreign).conflicts = <<>>

\* C22: Chrome round trip: write_chrome_bookmarks followed by
\* read_chrome_bookmarks of the written file gives bookmark_bar and other
\* subtrees with the store's folder nesting, sibling order, and title, type
\* and url on every node.
RECURSIVE Shape(_, _)
Shape(nodes, kids) ==
    [i \in 1..Len(kids) |->
        [title |-> nodes[kids[i]].title,
         type |-> nodes[kids[i]].type,
         url |-> nodes[kids[i]].url,
         children |-> Shape(nodes, nodes[kids[i]].children)]]

SameTrees(st, snap) ==
    /\ snap # NoSnapshot
    /\ \A r \in {"bookmark_bar", "other"} :
          Shape(snap.nodes, snap.nodes[snap.roots[r]].children)
             = Shape(st.nodes, st.nodes[st.roots[r]].children)

Written(st) == write_chrome_bookmarks(st, EmptyChromeFile, NoPath, FALSE)

C21_NoTempCopyLeft ==
    \A copy_fails \in BOOLEAN, query_fails \in BOOLEAN :
        With(read_firefox_bookmarks(places, tmpdirs, copy_fails, query_fails),
             LAMBDA r : /\ r.tmp = tmpdirs
                        /\ <<"places", "rw">> \notin r.opened)

\* C24: the store file only ever reflects fully completed operations:
\* whenever the file changes, also when the operation or its save fails,
\* it holds the whole document of the store as the operation left it,
\* never a partially written document.
C24_StoreFileWhole ==
    [][storeFile' # storeFile =>
          /\ storeFile' = store'
          /\ "torn" \notin DOMAIN storeFile']_vars

\* the step is the start of an operation on the Store: an editor mutation,
\* a sync pass, a new worker
StartsOperation ==
    last'.op \in {"add", "plan_sync", "execute_sync",
                  "ImportWorker.start", "ExportWorker.start"}

\* C23: the store has a single owner: the driver starts no operation on
\* the Store (an editor mutation, a sync pass, a new ImportWorker or
\* ExportWorker) while a worker thread started earlier is still running.
C23_SingleOwner == [][StartsOperation => Running = 0]_vars
====
